---- MODULE Spec2Model ----
(***************************************************************************)
(* A model of the whois-email SMTP relay: the server session               *)
(* (src/src/server.rs), the outbound entry point send_mail                 *)
(* (src/src/client.rs) and the sender loop (src/src/sender.rs).            *)
(*                                                                         *)
(* Five specifications share the module:                                   *)
(*   Spec        one server session over the store                         *)
(*   SpecSend    one call of send_mail                                     *)
(*   SpecSender  the sender loop over the outbound queue (with fairness)   *)
(*   SpecClient  one call of try_send_mail against a peer                  *)
(*   SpecWire    the wire formats: commands, replies, DATA transparency,   *)
(*               and the validation of a message                           *)
(* The variables of the parts a specification does not exercise keep       *)
(* their initial values.                                                   *)
(***************************************************************************)
EXTENDS Integers, Sequences, FiniteSets, TLC

VARIABLES
    \* ---- server session (server.rs, struct SessionState) ----
    client_identity,   \* Option<String>
    protocol,          \* Option<String>
    reverse_path,      \* Option<String>
    forward_paths,     \* Vec<String>
    binary_data,       \* Vec<u8>, here the lines buffered by BDAT
    closed,            \* the session's loop has ended
    \* ---- what the last command did on the socket ----
    read_outcome,      \* what read_line gave: "line", "invalid_data" or "eof"
    cmd_verb,          \* verb of the command line just processed
    cmd_args,          \* its arguments, as SMTPCommand::parse keeps them (reversed)
    sent,              \* the replies written while processing it
    consumed,          \* message lines read from the socket after the command line
    finalized,         \* process_email ran in the last step
    final_data,        \* the data process_email was given
    db_failed,         \* a store operation failed in the last step
    \* ---- the store (schema.rs) ----
    mail_subpart, inbound_queue, outbound_message, outbound_queue,
    next_id,           \* number of uuids drawn so far
    srv_pending,       \* per server session: the inserts of process_email still to make
    \* ---- send_mail (client.rs) ----
    sm_pc, sm_forward_paths, sm_out_list, sm_grouped, sm_group, sm_mx,
    sm_last_error, sm_attempts, sm_verdicts, sm_data_valid,
    sm_queries,        \* the queries sent to the resolver, in order
    \* ---- sender loop (sender.rs) ----
    snd_pc, snd_forwards, snd_results, snd_attempted,
    \* ---- try_send_mail (client.rs) ----
    cl_pc,             \* the await the call is at
    cl_state,          \* SessionState of the client: what the peer supports
    cl_tls,            \* the stream is the TLS stream
    cl_addresses,      \* the addresses of the group
    cl_data_valid,     \* mailparse::parse_mail accepts the data
    cl_data,           \* the message parse_mail gives
    cl_ehlo,           \* the replies to EHLO so far, in order
    cl_connects,       \* TCP connections opened so far
    cl_rcpt,           \* recipients accepted so far
    cl_written,        \* the commands and octets written to the peer, in order
    cl_read,           \* the await just made and what the peer did
    cl_result,         \* None while running, then what try_send_mail returns
    \* ---- the wire formats (proto.rs, send_data, handle_data) ----
    wr_pc,             \* "call", "wire" (the bytes are in flight), "done"
    wr_call,           \* the function under study and its argument
    wr_wire,           \* the bytes written
    wr_ret             \* what the reader of the bytes, or the function, returns

sessionVars == <<client_identity, protocol, reverse_path, forward_paths, binary_data, closed>>
ioVars == <<read_outcome, cmd_verb, cmd_args, sent, consumed, finalized, final_data, db_failed>>
storeVars == <<mail_subpart, inbound_queue, outbound_message, outbound_queue, next_id,
               srv_pending>>
sendVars == <<sm_pc, sm_forward_paths, sm_out_list, sm_grouped, sm_group, sm_mx,
              sm_last_error, sm_attempts, sm_verdicts, sm_data_valid, sm_queries>>
senderVars == <<snd_pc, snd_forwards, snd_results, snd_attempted>>
clientVars == <<cl_pc, cl_state, cl_tls, cl_addresses, cl_data_valid, cl_data, cl_ehlo,
                cl_connects, cl_rcpt, cl_written, cl_read, cl_result>>
wireVars == <<wr_pc, wr_call, wr_wire, wr_ret>>
vars == <<sessionVars, ioVars, storeVars, sendVars, senderVars, clientVars, wireVars>>

(***************************************************************************)
(* Bounds of the model.                                                    *)
(***************************************************************************)
\* longest forward_paths list a session builds
MaxRcpt == 2
\* most lines a session buffers with non-final BDAT chunks
MaxBuffered == 2
\* longest recipient list given to send_mail
MaxPaths == 3
\* confirmations are queued while fewer than MaxQueued uuids have been drawn
MaxQueued == 3
\* a session is followed while fewer than MaxStored uuids have been drawn
MaxStored == 1

\* Option<T>: None is the empty sequence, Some(x) the one-element sequence
None == <<>>
Some(x) == <<x>>
Unwrap(o) == o[1]

(***************************************************************************)
(* Text: a string is a sequence of one-character strings.                  *)
(***************************************************************************)
UpperAlphabet == <<"A","B","C","D","E","F","G","H","I","J","K","L","M",
                   "N","O","P","Q","R","S","T","U","V","W","X","Y","Z">>
LowerAlphabet == <<"a","b","c","d","e","f","g","h","i","j","k","l","m",
                   "n","o","p","q","r","s","t","u","v","w","x","y","z">>
Digits == <<"0","1","2","3","4","5","6","7","8","9">>

IndexIn(c, alphabet) ==
    IF \E i \in DOMAIN alphabet : alphabet[i] = c
    THEN CHOOSE i \in DOMAIN alphabet : alphabet[i] = c
    ELSE 0

ToUpperChar(c) == IF IndexIn(c, LowerAlphabet) # 0 THEN UpperAlphabet[IndexIn(c, LowerAlphabet)] ELSE c
ToLowerChar(c) == IF IndexIn(c, UpperAlphabet) # 0 THEN LowerAlphabet[IndexIn(c, UpperAlphabet)] ELSE c
to_uppercase(s) == [i \in DOMAIN s |-> ToUpperChar(s[i])]
to_lowercase(s) == [i \in DOMAIN s |-> ToLowerChar(s[i])]
eq_ignore_ascii_case(s, t) == to_lowercase(s) = to_lowercase(t)

starts_with(s, p) == Len(s) >= Len(p) /\ SubSeq(s, 1, Len(p)) = p
\* &s[n..]
SliceFrom(s, n) == SubSeq(s, n + 1, Len(s))

IsWhitespace(c) == c \in {" ", "\t", "\r", "\n"}

\* the last index of character c in s, 0 when absent
LastIndexOf(s, c) ==
    IF \E i \in DOMAIN s : s[i] = c
    THEN CHOOSE i \in DOMAIN s : s[i] = c /\ \A j \in DOMAIN s : s[j] = c => j <= i
    ELSE 0
FirstIndexOf(s, c) ==
    IF \E i \in DOMAIN s : s[i] = c
    THEN CHOOSE i \in DOMAIN s : s[i] = c /\ \A j \in DOMAIN s : s[j] = c => j >= i
    ELSE 0

\* str::parse::<usize>: decimal digits only, at least one
RECURSIVE DigitsValue(_, _)
DigitsValue(s, acc) ==
    IF s = <<>> THEN acc
    ELSE DigitsValue(Tail(s), acc * 10 + (IndexIn(Head(s), Digits) - 1))
parse_usize(s) ==
    IF s # <<>> /\ \A i \in DOMAIN s : IndexIn(s[i], Digits) # 0
    THEN [ok |-> TRUE, v |-> DigitsValue(s, 0)]
    ELSE [ok |-> FALSE, v |-> 0]

\* the words used on the wire
SP == <<" ">>
CRLF == <<"\r", "\n">>
W_HELO == <<"H","E","L","O">>
W_EHLO == <<"E","H","L","O">>
W_MAIL == <<"M","A","I","L">>
W_RCPT == <<"R","C","P","T">>
W_DATA == <<"D","A","T","A">>
W_BDAT == <<"B","D","A","T">>
W_RSET == <<"R","S","E","T">>
W_NOOP == <<"N","O","O","P">>
W_HELP == <<"H","E","L","P">>
W_EXPN == <<"E","X","P","N">>
W_QUIT == <<"Q","U","I","T">>
W_VRFY == <<"V","R","F","Y">>
W_LAST == <<"L","A","S","T">>
W_FROM == <<"F","R","O","M",":">>
W_TO == <<"T","O",":">>
W_postmaster == <<"p","o","s","t","m","a","s","t","e","r">>
W_Postmaster == <<"P","o","s","t","M","a","s","t","e","r">>
W_foo == <<"f","o","o">>
W_alice == <<"a","@","x">>
W_client == <<"c">>
AT == <<"@">>
LT == <<"<">>
GT == <<">">>

(***************************************************************************)
(* proto.rs: SMTPResponse and SMTPCommand.                                 *)
(***************************************************************************)
\* SMTPResponse::new
Response(code, msg) == [code |-> code, lines |-> <<msg>>]
\* SMTPResponse::add_line
add_line(resp, line) == [resp EXCEPT !.lines = Append(@, line)]

\* str::split_ascii_whitespace
RECURSIVE SplitWs(_, _, _)
SplitWs(s, cur, acc) ==
    IF s = <<>> THEN (IF cur = <<>> THEN acc ELSE Append(acc, cur))
    ELSE IF IsWhitespace(Head(s))
         THEN SplitWs(Tail(s), <<>>, IF cur = <<>> THEN acc ELSE Append(acc, cur))
         ELSE SplitWs(Tail(s), Append(cur, Head(s)), acc)
split_ascii_whitespace(s) == SplitWs(s, <<>>, <<>>)

Reverse(s) == [i \in DOMAIN s |-> s[Len(s) + 1 - i]]

\* SMTPCommand::parse: parts.next().unwrap() panics on a line without a token
SMTPCommand_parse(line) ==
    LET parts == split_ascii_whitespace(line) IN
    IF parts = <<>>
    THEN [panic |-> TRUE, verb |-> <<>>, args |-> <<>>]
    ELSE [panic |-> FALSE, verb |-> to_uppercase(Head(parts)), args |-> Reverse(Tail(parts))]

\* Vec::pop: the last element
Pop(args) == args[Len(args)]
Popped(args) == SubSeq(args, 1, Len(args) - 1)


(***************************************************************************)
(* mailparse::addrparse and MailAddrList::extract_single_info, as far as   *)
(* the server's MAIL and RCPT arguments exercise them: an address in angle *)
(* brackets, or a bare address; a list or a group is not a single address. *)
(***************************************************************************)
addrparse(s) ==
    IF s = <<>> THEN [ok |-> TRUE, single |-> FALSE, addr |-> <<>>]
    ELSE IF Head(s) = "<"
    THEN LET close == FirstIndexOf(s, ">") IN
         IF close = 0 \/ close # Len(s)
         THEN [ok |-> FALSE, single |-> FALSE, addr |-> <<>>]
         ELSE [ok |-> TRUE, single |-> TRUE, addr |-> SubSeq(s, 2, close - 1)]
    ELSE IF \E i \in DOMAIN s : s[i] \in {"<", ">", ":", ";"}
    THEN [ok |-> FALSE, single |-> FALSE, addr |-> <<>>]
    ELSE IF \E i \in DOMAIN s : s[i] = ","
    THEN [ok |-> TRUE, single |-> FALSE, addr |-> <<>>]
    ELSE [ok |-> TRUE, single |-> TRUE, addr |-> s]

\* e.addr.rsplit(":").next().unwrap()
rsplit_colon_first(addr) == SliceFrom(addr, LastIndexOf(addr, ":"))

(***************************************************************************)
(* Message data: a sequence of lines.  A line is a header line (key, does  *)
(* its value parse, the addresses or ids of its value), the blank line, or *)
(* a line of body text standing for a MIME body (is its raw body           *)
(* decodable, its subparts).  dots counts the leading dots of the line.    *)
(***************************************************************************)
Line(t, key, ok, val, subs) == [dots |-> 0, t |-> t, key |-> key, ok |-> ok, val |-> val, subs |-> subs]
Hdr(key, ok, val) == Line("hdr", key, ok, val, <<>>)
Blank == Line("blank", "", TRUE, <<>>, <<>>)
Body(ok, subs) == Line("text", "", ok, <<>>, subs)
Part(ok, subs) == [ok |-> ok, subs |-> subs]
Single(addr) == [group |-> FALSE, addrs |-> <<addr>>]
Group(addrs) == [group |-> TRUE, addrs |-> addrs]
Dotted(line, n) == [line EXCEPT !.dots = n]

RECURSIVE Flatten(_)
\* the addresses of a MailAddrList, groups flattened
Flatten(list) == IF list = <<>> THEN <<>> ELSE Head(list).addrs \o Flatten(Tail(list))
count_addrs(list) == Len(Flatten(list))
extract_single_info(list) == Len(list) = 1 /\ ~list[1].group

\* mailparse::parse_mail: the header block ends at the first blank line; a
\* line that is no header line inside the header block is a parse error
parse_mail(data) ==
    LET blank == IF \E i \in DOMAIN data : data[i].t = "blank" /\ data[i].dots = 0
                 THEN CHOOSE i \in DOMAIN data :
                        /\ data[i].t = "blank" /\ data[i].dots = 0
                        /\ \A j \in 1..(i - 1) : ~(data[j].t = "blank" /\ data[j].dots = 0)
                 ELSE Len(data) + 1
        head == SubSeq(data, 1, blank - 1)
        rest == SubSeq(data, blank + 1, Len(data))
        bodies == SelectSeq(rest, LAMBDA l : l.t = "text")
    IN  IF \E i \in DOMAIN head : head[i].t # "hdr" \/ head[i].dots # 0
        THEN [ok |-> FALSE, err |-> "parse_mail", headers |-> <<>>, part |-> Part(TRUE, <<>>)]
        ELSE [ok |-> TRUE, err |-> "", headers |-> head,
              part |-> IF bodies = <<>> THEN Part(TRUE, <<>>)
                       ELSE Part(bodies[1].ok, bodies[1].subs)]

\* MailHeaderMap::get_all_headers
get_all_headers(headers, key) == SelectSeq(headers, LAMBDA h : h.key = key)

Rejected(err) == [ok |-> FALSE, err |-> err, from |-> <<>>, has_reply_to |-> FALSE,
                  reply_to |-> <<>>, has_sender |-> FALSE, part |-> Part(TRUE, <<>>)]

\* proto.rs lines 222-285: the optional headers after Reply-To, in the order
\* of the code
OptionalHeaders == <<"To", "Cc", "Bcc", "Subject", "Message-ID", "In-Reply-To", "References">>

\* the first error among the optional headers from the k-th on, "" when
\* there is none: a header given twice; a value that does not parse (the
\* value of Subject is taken as it is); a Message-ID without exactly one id
RECURSIVE optional_headers_error(_, _)
RECURSIVE header_error(_, _, _, _)
header_error(headers, k, key, found) ==
    IF Len(found) > 1 THEN "Invalid number of " \o key \o " headers"
    ELSE IF Len(found) = 1 /\ key # "Subject" /\ ~found[1].ok THEN "parse"
    ELSE IF Len(found) = 1 /\ key = "Message-ID" /\ Len(found[1].val) # 1
         THEN "Invalid number of Message-IDs"
    ELSE optional_headers_error(headers, k + 1)
optional_headers_error(headers, k) ==
    IF k > Len(OptionalHeaders) THEN ""
    ELSE header_error(headers, k, OptionalHeaders[k], get_all_headers(headers, OptionalHeaders[k]))

\* the same, but a second Date header is let through
validate_headers_RepeatedDate(mail, date, from, sender, reply_to, optional_error) ==
    IF Len(date) < 1 THEN Rejected("Invalid number of Date headers")
    ELSE IF ~date[1].ok THEN Rejected("dateparse")
    ELSE IF Len(from) # 1 THEN Rejected("Invalid number of From headers")
    ELSE IF ~from[1].ok THEN Rejected("addrparse")
    ELSE IF count_addrs(from[1].val) < 1 THEN Rejected("Invalid number of From addresses")
    ELSE IF Len(sender) = 1 /\ ~sender[1].ok THEN Rejected("addrparse")
    ELSE IF Len(sender) = 1 /\ ~extract_single_info(sender[1].val)
         THEN Rejected("Only a single address is allowed as a Sender")
    ELSE IF Len(sender) # 1 /\ count_addrs(from[1].val) # 1
         THEN Rejected("Invalid number of Sender headers")
    ELSE IF Len(reply_to) > 1 THEN Rejected("Invalid number of Reply-To headers")
    ELSE IF Len(reply_to) = 1 /\ ~reply_to[1].ok THEN Rejected("addrparse")
    ELSE IF Len(reply_to) = 1 /\ count_addrs(reply_to[1].val) < 1
         THEN Rejected("Invalid number of Reply-To addresses")
    ELSE IF optional_error # "" THEN Rejected(optional_error)
    ELSE [ok |-> TRUE, err |-> "", from |-> from[1].val,
          has_reply_to |-> Len(reply_to) = 1,
          reply_to |-> IF Len(reply_to) = 1 THEN reply_to[1].val ELSE <<>>,
          has_sender |-> Len(sender) = 1,
          part |-> mail.part]

\* proto.rs parse_and_validate_parsed_mail, lines 169-301: the checks on the
\* headers of a parsed message, in the order of the code
validate_headers(mail, date, from, sender, reply_to, optional_error) ==
    IF Len(date) # 1 THEN Rejected("Invalid number of Date headers")
    ELSE IF ~date[1].ok THEN Rejected("dateparse")
    ELSE IF Len(from) # 1 THEN Rejected("Invalid number of From headers")
    ELSE IF ~from[1].ok THEN Rejected("addrparse")
    ELSE IF count_addrs(from[1].val) < 1 THEN Rejected("Invalid number of From addresses")
    ELSE IF Len(sender) = 1 /\ ~sender[1].ok THEN Rejected("addrparse")
    ELSE IF Len(sender) = 1 /\ ~extract_single_info(sender[1].val)
         THEN Rejected("Only a single address is allowed as a Sender")
    ELSE IF Len(sender) # 1 /\ count_addrs(from[1].val) # 1
         THEN Rejected("Invalid number of Sender headers")
    ELSE IF Len(reply_to) > 1 THEN Rejected("Invalid number of Reply-To headers")
    ELSE IF Len(reply_to) = 1 /\ ~reply_to[1].ok THEN Rejected("addrparse")
    ELSE IF Len(reply_to) = 1 /\ count_addrs(reply_to[1].val) < 1
         THEN Rejected("Invalid number of Reply-To addresses")
    ELSE IF optional_error # "" THEN Rejected(optional_error)
    ELSE [ok |-> TRUE, err |-> "", from |-> from[1].val,
          has_reply_to |-> Len(reply_to) = 1,
          reply_to |-> IF Len(reply_to) = 1 THEN reply_to[1].val ELSE <<>>,
          has_sender |-> Len(sender) = 1,
          part |-> mail.part]

\* proto.rs parse_and_validate_parsed_mail, lines 164-167, on the outcome of
\* mailparse::parse_mail
validate_mail(mail) ==
    IF ~mail.ok THEN Rejected(mail.err)
    ELSE validate_headers(mail,
            get_all_headers(mail.headers, "Date"),
            get_all_headers(mail.headers, "From"),
            get_all_headers(mail.headers, "Sender"),
            get_all_headers(mail.headers, "Reply-To"),
            optional_headers_error(mail.headers, 1))

\* proto.rs parse_and_validate_parsed_mail
parse_and_validate_parsed_mail(data) == validate_mail(parse_mail(data))


(***************************************************************************)
(* The store.  db carries the four tables, the uuids drawn, and the        *)
(* failure the environment injects: the failAt-th store operation of the   *)
(* step (a pool get or an insert) fails; failAt = 0 means none does.       *)
(***************************************************************************)
\* uuid::Uuid::new_v4: the next fresh id
new_v4(db) == [db EXCEPT !.next_id = @ + 1]
\* config.connection.get() or diesel::insert_into(..).execute(..), counted
StoreOp(db) == [db EXCEPT !.ops = @ + 1, !.failed = (@ \/ db.ops + 1 = db.failAt)]

InternalError == Response(451, "Internal server error")

\* server.rs process_email_part over a list of sibling parts (the map over
\* part.subparts, which stops at the first error): for each part its id is
\* drawn first, its body is decoded, its children are persisted in order,
\* then its own row; ids collects the ids of the parts done
RECURSIVE process_parts(_, _, _)
process_parts(parts, db, ids) ==
    LET Inserted(contents_id, subids, db2) ==
            IF db2.failed
            THEN [db |-> db2, ok |-> FALSE, ids |-> ids, resp |-> InternalError]
            ELSE process_parts(Tail(parts),
                    [db2 EXCEPT !.mail_subpart =
                        Append(@, [id |-> contents_id, subparts |-> subids])],
                    Append(ids, contents_id))
        Children(contents_id, sub) ==
            IF ~sub.ok
            THEN [db |-> sub.db, ok |-> FALSE, ids |-> ids, resp |-> sub.resp]
            ELSE Inserted(contents_id, sub.ids, StoreOp(sub.db))
    IN  IF parts = <<>> THEN [db |-> db, ok |-> TRUE, ids |-> ids, resp |-> InternalError]
        ELSE IF ~Head(parts).ok
        THEN [db |-> new_v4(db), ok |-> FALSE, ids |-> ids,
              resp |-> Response(550, "Error decoding content transfer encoding")]
        ELSE Children(db.next_id + 1, process_parts(Head(parts).subs, new_v4(db), <<>>))

\* the outcome of process_email_part for the root of a part tree
RootOf(r) == [db |-> r.db, ok |-> r.ok, resp |-> r.resp, id |-> IF r.ok THEN r.ids[1] ELSE 0]

\* server.rs process_email_part: the root of a part tree
process_email_part(part, db) == RootOf(process_parts(<<part>>, db, <<>>))

\* sender.rs queue_confirmation_mail, lines 98-118: one Queued item per
\* envelope recipient
RECURSIVE queue_items(_, _, _)
queue_items(recipients, message_id, db) ==
    LET Inserted(id, db1) ==
            IF db1.failed THEN [db |-> db1, ok |-> FALSE, resp |-> InternalError]
            ELSE queue_items(Tail(recipients), message_id,
                    [db1 EXCEPT !.outbound_queue =
                        Append(@, [id |-> id, message_id |-> message_id,
                                   forward_path |-> Head(recipients), state |-> "Queued"])])
    IN  IF recipients = <<>> THEN [db |-> db, ok |-> TRUE, resp |-> InternalError]
        ELSE Inserted(db.next_id + 1, StoreOp(new_v4(db)))

\* the same, but the confirmation always goes to the From addresses
confirmation_recipients_FromOnly(mail) == Flatten(mail.from)

\* sender.rs queue_confirmation_mail, lines 21-59: Reply-To when present, else From
confirmation_recipients(mail) ==
    IF mail.has_reply_to THEN Flatten(mail.reply_to) ELSE Flatten(mail.from)

\* sender.rs queue_confirmation_mail, lines 80-96: the row of the message
OutboundMessageRow(message_id, rcpt_to, db1) ==
    [db1 EXCEPT !.outbound_message = Append(@, [id |-> message_id, rcpt_to |-> rcpt_to])]

\* the same, but a failed insert of a queue item is not reported
queue_confirmation_mail_IgnoresItemError(rcpt_to, mail, db) ==
    LET Items(q) == [q EXCEPT !.ok = TRUE]
        Inserted(message_id, db1) ==
            IF db1.failed THEN [db |-> db1, ok |-> FALSE, resp |-> InternalError]
            ELSE Items(queue_items(confirmation_recipients(mail), message_id,
                                   OutboundMessageRow(message_id, rcpt_to, db1)))
    IN  Inserted(db.next_id + 1, StoreOp(new_v4(db)))

\* the same, but the items are inserted before the message they refer to
queue_confirmation_mail_ItemsFirst(rcpt_to, mail, db) ==
    LET Inserted(message_id, db2) ==
            IF db2.failed THEN [db |-> db2, ok |-> FALSE, resp |-> InternalError]
            ELSE [db |-> OutboundMessageRow(message_id, rcpt_to, db2), ok |-> TRUE,
                  resp |-> InternalError]
        Items(message_id, q) ==
            IF ~q.ok THEN q ELSE Inserted(message_id, StoreOp(q.db))
    IN  Items(db.next_id + 1,
              queue_items(confirmation_recipients(mail), db.next_id + 1, new_v4(db)))

\* sender.rs queue_confirmation_mail
queue_confirmation_mail(rcpt_to, mail, db) ==
    LET Inserted(message_id, db1) ==
            IF db1.failed THEN [db |-> db1, ok |-> FALSE, resp |-> InternalError]
            ELSE queue_items(confirmation_recipients(mail), message_id,
                             OutboundMessageRow(message_id, rcpt_to, db1))
    IN  Inserted(db.next_id + 1, StoreOp(new_v4(db)))

\* server.rs return_path_header and received_headers: the two header lines
\* put before the data for one recipient
Prelude(s, path) ==
    << Hdr("Return-Path", TRUE, <<Single(IF s.reverse_path = None THEN <<>> ELSE Unwrap(s.reverse_path))>>),
       Hdr("Received", TRUE, <<Single(path)>>) >>

InvalidMail(err) == add_line(Response(550, "Ew! Non RFC5322 compliant mail!"), err)

\* server.rs process_email, lines 317-334: the row of the inbound queue
InboundQueueRow(queue_id, recipient, contents, db2) ==
    [db2 EXCEPT !.inbound_queue =
        Append(@, [id |-> queue_id, rcpt_to |-> recipient, contents |-> contents])]

\* the same, but the part tree is persisted before the message is validated
process_recipient_ValidatesLate(s, recipient, data, db) ==
    LET Queued(parsed_imf, queue_id, contents, db2) ==
            IF db2.failed THEN [db |-> db2, ok |-> FALSE, resp |-> InternalError]
            ELSE queue_confirmation_mail(recipient, parsed_imf,
                    InboundQueueRow(queue_id, recipient, contents, db2))
        Persisted(parsed_imf, queue_id, tree) ==
            IF ~tree.ok THEN [db |-> tree.db, ok |-> FALSE, resp |-> tree.resp]
            ELSE IF ~parsed_imf.ok
            THEN [db |-> tree.db, ok |-> FALSE, resp |-> InvalidMail(parsed_imf.err)]
            ELSE Queued(parsed_imf, queue_id, tree.id, StoreOp(tree.db))
        Connected(parsed_imf, part, db1) ==
            IF db1.failed THEN [db |-> db1, ok |-> FALSE, resp |-> InternalError]
            ELSE Persisted(parsed_imf, db1.next_id + 1, process_email_part(part, new_v4(db1)))
    IN  Connected(parse_and_validate_parsed_mail(Prelude(s, recipient) \o data),
                  parse_mail(Prelude(s, recipient) \o data).part, StoreOp(db))

\* server.rs process_email, the body of the loop: one recipient
process_recipient(s, recipient, data, db) ==
    LET Queued(parsed_imf, queue_id, contents, db2) ==
            IF db2.failed THEN [db |-> db2, ok |-> FALSE, resp |-> InternalError]
            ELSE queue_confirmation_mail(recipient, parsed_imf,
                    InboundQueueRow(queue_id, recipient, contents, db2))
        Persisted(parsed_imf, queue_id, tree) ==
            IF ~tree.ok THEN [db |-> tree.db, ok |-> FALSE, resp |-> tree.resp]
            ELSE Queued(parsed_imf, queue_id, tree.id, StoreOp(tree.db))
        Connected(parsed_imf, db1) ==
            IF db1.failed THEN [db |-> db1, ok |-> FALSE, resp |-> InternalError]
            ELSE Persisted(parsed_imf, db1.next_id + 1,
                           process_email_part(parsed_imf.part, new_v4(db1)))
        Validated(parsed_imf) ==
            IF ~parsed_imf.ok
            THEN [db |-> db, ok |-> FALSE, resp |-> InvalidMail(parsed_imf.err)]
            ELSE Connected(parsed_imf, StoreOp(db))
    IN  Validated(parse_and_validate_parsed_mail(Prelude(s, recipient) \o data))

\* server.rs process_email: the recipients in order, stopping at the first error
RECURSIVE process_email_from(_, _, _, _)
process_email_from(s, k, data, db) ==
    LET Done(r) == IF ~r.ok THEN r ELSE process_email_from(s, k + 1, data, r.db)
    IN  IF k > Len(s.forward_paths) THEN [db |-> db, ok |-> TRUE, resp |-> InternalError]
        ELSE Done(process_recipient(s, s.forward_paths[k], data, db))
process_email(s, data, db) == process_email_from(s, 1, data, db)


(***************************************************************************)
(* server.rs: the command handlers.  s is the SessionState; a handler      *)
(* gives the new SessionState and what it wrote and read on the socket.    *)
(***************************************************************************)
GoReadTheRFCs(code) == Response(code, "Go read the RFCs")

Handled(s, replies) ==
    [s |-> s, sent |-> replies, consumed |-> 0, finalized |-> FALSE, final_data |-> <<>>,
     closed |-> FALSE, touched |-> FALSE, db |-> <<>>]
Finalized(s, replies, n, data, db) ==
    [s |-> s, sent |-> replies, consumed |-> n, finalized |-> TRUE, final_data |-> data,
     closed |-> FALSE, touched |-> TRUE, db |-> db]

\* process_socket, "HELO" and "EHLO": the reply to an accepted greeting
Greeting(proto) ==
    IF proto = "ESMTP"
    THEN [code |-> 250, lines |-> <<"relay-mx.as207960.net Good day to you",
                                    "8BITMIME", "SMTPUTF8", "CHUNKING", "SIZE 0">>]
    ELSE Response(250, "relay-mx.as207960.net Good day to you")

\* the same, but forward_paths survives the greeting
handle_helo_KeepsPaths(s, cmd, proto) ==
    IF Len(cmd.args) # 1 THEN Handled(s, <<GoReadTheRFCs(501)>>)
    ELSE Handled([s EXCEPT !.client_identity = Some(Pop(cmd.args)),
                           !.protocol = Some(proto),
                           !.reverse_path = None],
                 <<Greeting(proto)>>)

\* process_socket, the "HELO" and "EHLO" arms
handle_helo(s, cmd, proto) ==
    IF Len(cmd.args) # 1 THEN Handled(s, <<GoReadTheRFCs(501)>>)
    ELSE Handled([s EXCEPT !.client_identity = Some(Pop(cmd.args)),
                           !.protocol = Some(proto),
                           !.reverse_path = None,
                           !.forward_paths = <<>>],
                 <<Greeting(proto)>>)

\* the same, but a reverse path in flight does not stop MAIL
MailInSequence_IgnoresReversePath(s) == s.client_identity # None

\* handle_mail, line 66: MAIL is in sequence
MailInSequence(s) == s.client_identity # None /\ s.reverse_path = None

\* server.rs handle_mail
handle_mail(s, cmd) ==
    IF ~MailInSequence(s) THEN Handled(s, <<GoReadTheRFCs(503)>>)
    ELSE IF cmd.args = <<>> THEN Handled(s, <<GoReadTheRFCs(501)>>)
    ELSE LET arg == Pop(cmd.args) IN
         IF ~starts_with(arg, W_FROM) THEN Handled(s, <<GoReadTheRFCs(501)>>)
         ELSE IF SliceFrom(arg, 5) = LT \o GT
         THEN Handled([s EXCEPT !.reverse_path = Some(<<>>)],
                      <<Response(250, "OwO? Not giving a reverse path?")>>)
         ELSE LET e == addrparse(SliceFrom(arg, 5)) IN
              IF ~e.ok \/ ~e.single THEN Handled(s, <<GoReadTheRFCs(501)>>)
              ELSE Handled([s EXCEPT !.reverse_path = Some(e.addr), !.forward_paths = <<>>],
                           <<Response(250, "OwO what's this? A valid reverse path?")>>)

\* handle_rcpt, line 100: RCPT is in sequence
RcptInSequence(s) == s.client_identity # None /\ s.reverse_path # None

\* handle_rcpt, line 111: the postmaster test on the text after "TO:"
IsPostmasterArg(arg) ==
    \/ to_lowercase(SliceFrom(arg, 3)) = W_postmaster
    \/ starts_with(to_lowercase(SliceFrom(arg, 3)), W_postmaster \o AT)

\* server.rs handle_rcpt
handle_rcpt(s, cmd) ==
    IF ~RcptInSequence(s) THEN Handled(s, <<GoReadTheRFCs(503)>>)
    ELSE IF cmd.args = <<>> THEN Handled(s, <<GoReadTheRFCs(501)>>)
    ELSE LET arg == Pop(cmd.args) IN
         IF ~starts_with(arg, W_TO) THEN Handled(s, <<GoReadTheRFCs(501)>>)
         ELSE IF IsPostmasterArg(arg)
         THEN Handled(s, <<Response(551, "Go email noc@as207960.net instead")>>)
         ELSE LET e == addrparse(SliceFrom(arg, 3)) IN
              IF ~e.ok \/ ~e.single THEN Handled(s, <<GoReadTheRFCs(501)>>)
              ELSE Handled([s EXCEPT !.forward_paths = Append(@, rsplit_colon_first(e.addr))],
                           <<Response(250, "UwU emails!")>>)

\* the same, but DATA does not ask for a recipient
DataInSequence_IgnoresRecipients(s) == s.client_identity # None /\ s.reverse_path # None

\* handle_data line 138 and handle_bdat line 191: DATA and BDAT are in sequence
DataInSequence(s) ==
    s.client_identity # None /\ s.reverse_path # None /\ s.forward_paths # <<>>

\* the end of a transaction: handle_data lines 183-185, handle_bdat lines
\* 226-228, and the "RSET" arm of process_socket
ClearTransaction(s) ==
    [s EXCEPT !.reverse_path = None, !.forward_paths = <<>>, !.binary_data = <<>>]

\* handle_data, the read loop: lines up to the line ".CRLF", one leading
\* dot stripped from each; eof when the stream ends first
IsTerminator(l) == l.dots = 1 /\ l.t = "blank"
Unstuff(l) == IF l.dots > 0 THEN [l EXCEPT !.dots = @ - 1] ELSE l
\* the same, but the end of the stream is taken as the end of the data
RECURSIVE read_data_EofEndsData(_, _, _)
read_data_EofEndsData(wire, data, n) ==
    IF wire = <<>> THEN [eof |-> FALSE, data |-> data, read |-> n]
    ELSE IF IsTerminator(Head(wire)) THEN [eof |-> FALSE, data |-> data, read |-> n + 1]
    ELSE read_data_EofEndsData(Tail(wire), Append(data, Unstuff(Head(wire))), n + 1)
RECURSIVE read_data(_, _, _)
read_data(wire, data, n) ==
    IF wire = <<>> THEN [eof |-> TRUE, data |-> data, read |-> n]
    ELSE IF IsTerminator(Head(wire)) THEN [eof |-> FALSE, data |-> data, read |-> n + 1]
    ELSE read_data(Tail(wire), Append(data, Unstuff(Head(wire))), n + 1)

FeedMe == Response(354, "Feed me your email")
Delicious == Response(250, "Nom nom nom that was delicious")

\* server.rs handle_data; wire is what the client sends after the command
handle_data(s, cmd, wire, db) ==
    LET Processed(r, p) ==
            IF ~p.ok THEN Finalized(s, <<FeedMe, p.resp>>, r.read, r.data, p.db)
            ELSE Finalized(ClearTransaction(s), <<FeedMe, Delicious>>, r.read, r.data, p.db)
        Read(r) ==
            IF r.eof
            THEN [Handled(s, <<FeedMe>>) EXCEPT !.consumed = r.read, !.closed = TRUE]
            ELSE Processed(r, process_email(s, r.data, db))
    IN  IF ~DataInSequence(s) THEN Handled(s, <<GoReadTheRFCs(503)>>)
        ELSE IF Len(cmd.args) # 0 THEN Handled(s, <<GoReadTheRFCs(501)>>)
        ELSE Read(read_data(wire, <<>>, 0))

\* server.rs handle_bdat; chunk is what the client sends after the command,
\* short when the stream ends before chunk_size octets arrived
handle_bdat(s, cmd, chunk, db) ==
    LET Processed(s1, n, p) ==
            Finalized(ClearTransaction(s1), <<IF p.ok THEN Delicious ELSE p.resp>>,
                      n, s1.binary_data, p.db)
        Buffered(s1, n, is_last) ==
            IF is_last THEN Processed(s1, n, process_email(s1, s1.binary_data, db))
            ELSE [Handled(s1, <<Response(250, "Nom nom nom more please!")>>)
                     EXCEPT !.consumed = n]
        Sized(chunk_size, rest) ==
            IF ~chunk_size.ok THEN Handled(s, <<GoReadTheRFCs(501)>>)
            ELSE IF rest # <<>> /\ ~eq_ignore_ascii_case(Pop(rest), W_LAST)
            THEN Handled(s, <<GoReadTheRFCs(501)>>)
            ELSE IF Len(chunk) < chunk_size.v
            THEN [Handled(s, <<>>) EXCEPT !.consumed = Len(chunk), !.closed = TRUE]
            ELSE Buffered([s EXCEPT !.binary_data = @ \o SubSeq(chunk, 1, chunk_size.v)],
                          chunk_size.v,
                          IF rest # <<>> THEN TRUE ELSE chunk_size.v = 0)
    IN  IF ~DataInSequence(s) THEN Handled(s, <<GoReadTheRFCs(503)>>)
        ELSE IF Len(cmd.args) < 1 \/ Len(cmd.args) > 2 THEN Handled(s, <<GoReadTheRFCs(501)>>)
        ELSE Sized(parse_usize(Pop(cmd.args)), Popped(cmd.args))

\* the same, but the recipients given so far survive RSET
handle_rset_KeepsPaths(s) ==
    Handled([s EXCEPT !.reverse_path = None, !.binary_data = <<>>],
            <<Response(250, "And so we begin again")>>)

\* process_socket, the "RSET" arm
handle_rset(s) == Handled(ClearTransaction(s), <<Response(250, "And so we begin again")>>)


(***************************************************************************)
(* What the client of the server session sends: command lines, DATA        *)
(* payloads and BDAT chunks.                                               *)
(***************************************************************************)
RECURSIVE JoinSp(_)
JoinSp(ws) == IF Len(ws) = 1 THEN ws[1] ELSE ws[1] \o SP \o JoinSp(Tail(ws))
CommandLine(ws) == JoinSp(ws) \o CRLF

Angle(a) == LT \o a \o GT
W_pmfoo == W_postmaster \o AT \o W_foo

GreetingLines ==
    { CommandLine(<<W_HELO, W_client>>), CommandLine(<<<<"e","h","l","o">>, W_client>>),
      CommandLine(<<W_HELO>>), CommandLine(<<W_EHLO, W_client, W_client>>) }
MailLines ==
    { CommandLine(<<W_MAIL>>),
      CommandLine(<<W_MAIL, W_FROM \o LT \o GT>>),
      CommandLine(<<W_MAIL, W_FROM \o Angle(W_alice), <<"B","O","D","Y","=","8","B","I","T","M","I","M","E">>>>),
      CommandLine(<<W_MAIL, W_TO \o Angle(W_alice)>>) }
RcptLines ==
    { CommandLine(<<W_RCPT, W_TO \o Angle(W_alice)>>),
      CommandLine(<<W_RCPT, W_TO \o W_postmaster>>),
      CommandLine(<<W_RCPT, W_TO \o W_Postmaster \o AT \o W_foo>>),
      CommandLine(<<W_RCPT, W_TO \o Angle(W_pmfoo)>>),
      CommandLine(<<W_RCPT, W_TO \o LT \o W_alice>>) }
DataLines == { CommandLine(<<W_DATA>>), CommandLine(<<W_DATA, W_client>>) }
BdatLines ==
    { CommandLine(<<W_BDAT>>),
      CommandLine(<<W_BDAT, <<"2">>>>),
      CommandLine(<<W_BDAT, <<"1">>, <<"l","a","s","t">>>>),
      CommandLine(<<W_BDAT, <<"0">>>>),
      CommandLine(<<W_BDAT, <<"x">>>>),
      CommandLine(<<W_BDAT, <<"1">>, W_client>>) }
OtherLines ==
    { CommandLine(<<W_RSET>>), CommandLine(<<W_NOOP>>), CommandLine(<<W_HELP>>),
      CommandLine(<<W_EXPN>>), CommandLine(<<W_QUIT>>), CommandLine(<<W_VRFY, W_client>>),
      CRLF, SP \o CRLF }
CommandLines == GreetingLines \cup MailLines \cup RcptLines \cup DataLines \cup BdatLines \cup OtherLines

\* header lines and bodies of the sample messages
A_f1 == <<"f","@","y">>
A_r1 == <<"r","@","y">>
A_r2 == <<"s","@","z">>
DateLine == Hdr("Date", TRUE, <<>>)
FromLine == Hdr("From", TRUE, <<Single(A_f1)>>)
ReplyToLine == Hdr("Reply-To", TRUE, <<Single(A_r1), Group(<<A_r2>>)>>)
Terminator == Dotted(Blank, 1)

MsgPlain == <<DateLine, FromLine, Blank, Body(TRUE, <<>>)>>
MsgMulti == <<DateLine, FromLine, ReplyToLine, Blank, Body(TRUE, <<Part(TRUE, <<>>)>>)>>
MsgNoDate == <<FromLine, Blank, Body(TRUE, <<>>)>>
MsgBadPart == <<DateLine, FromLine, Blank, Body(TRUE, <<Part(TRUE, <<>>), Part(FALSE, <<>>)>>)>>
MsgDots == <<DateLine, FromLine, Blank, Body(TRUE, <<>>), Dotted(Blank, 2)>>

\* what follows a DATA command: a message and its terminator, or a stream
\* that ends before the terminator
DataWires ==
    { Append(MsgPlain, Terminator), Append(MsgMulti, Terminator), Append(MsgNoDate, Terminator),
      Append(MsgBadPart, Terminator), Append(MsgDots, Terminator), MsgPlain }

\* what follows a BDAT command: the header lines, the blank line that ends
\* them, or nothing
HeadChunk == <<DateLine, FromLine>>
TailChunk == <<Blank>>
Chunks == { HeadChunk, TailChunk, <<>> }

(***************************************************************************)
(* The server session: process_socket.  One action per arm of the command  *)
(* loop; each reads one command line and runs the whole handler.           *)
(***************************************************************************)
Session ==
    [client_identity |-> client_identity, protocol |-> protocol, reverse_path |-> reverse_path,
     forward_paths |-> forward_paths, binary_data |-> binary_data]
Store(failAt) ==
    [mail_subpart |-> mail_subpart, inbound_queue |-> inbound_queue,
     outbound_message |-> outbound_message, outbound_queue |-> outbound_queue,
     next_id |-> next_id, ops |-> 0, failAt |-> failAt, failed |-> FALSE]

SetStore(db) ==
    /\ mail_subpart' = db.mail_subpart
    /\ inbound_queue' = db.inbound_queue
    /\ outbound_message' = db.outbound_message
    /\ outbound_queue' = db.outbound_queue
    /\ next_id' = db.next_id
    /\ srv_pending' = srv_pending

\* one turn of the command loop: what read_line gave, the command parsed
\* from the line, and the result r of the arm taken
StepRead(outcome, verb, args, r) ==
    /\ read_outcome' = outcome
    /\ client_identity' = r.s.client_identity
    /\ protocol' = r.s.protocol
    /\ reverse_path' = r.s.reverse_path
    /\ forward_paths' = r.s.forward_paths
    /\ binary_data' = r.s.binary_data
    /\ closed' = r.closed
    /\ cmd_verb' = verb
    /\ cmd_args' = args
    /\ sent' = r.sent
    /\ consumed' = r.consumed
    /\ finalized' = r.finalized
    /\ final_data' = r.final_data
    /\ db_failed' = (r.touched /\ r.db.failed)
    /\ IF r.touched THEN SetStore(r.db) ELSE UNCHANGED storeVars

\* the turn for a line read
Step(verb, args, r) == StepRead("line", verb, args, r)

SendIdle ==
    /\ sm_pc = "idle" /\ sm_forward_paths = <<>> /\ sm_out_list = <<>> /\ sm_grouped = <<>>
    /\ sm_group = 0 /\ sm_mx = 0 /\ sm_last_error = None /\ sm_attempts = <<>> /\ sm_verdicts = <<>>
    /\ sm_data_valid = TRUE /\ sm_queries = <<>>
SenderIdle ==
    /\ snd_pc = "idle" /\ snd_forwards = <<>> /\ snd_results = <<>> /\ snd_attempted = {}
ClientIdle ==
    /\ cl_pc = "idle" /\ cl_state = <<>> /\ cl_tls = FALSE /\ cl_addresses = <<>>
    /\ cl_data_valid = TRUE /\ cl_rcpt = 0 /\ cl_written = <<>>
    /\ cl_data = <<>> /\ cl_ehlo = <<>> /\ cl_connects = 0
    /\ cl_read = [step |-> "none"] /\ cl_result = None
WireIdle ==
    /\ wr_pc = "idle" /\ wr_call = <<>> /\ wr_wire = <<>> /\ wr_ret = <<>>
\* the server sessions that run next to the sender loop
Sessions == {"s1", "s2"}

StoreEmpty ==
    /\ mail_subpart = <<>> /\ inbound_queue = <<>> /\ outbound_message = <<>>
    /\ outbound_queue = <<>> /\ next_id = 0
    /\ srv_pending = [s \in Sessions |-> None]

Banner == Response(220, "relay-mx.as207960.net Hippity hoppity your mail is now my property")
SessionNew ==
    /\ client_identity = None /\ protocol = None /\ reverse_path = None
    /\ forward_paths = <<>> /\ binary_data = <<>> /\ closed = FALSE
    /\ read_outcome = "none"
    /\ cmd_verb = <<>> /\ cmd_args = <<>> /\ sent = <<Banner>> /\ consumed = 0
    /\ finalized = FALSE /\ final_data = <<>> /\ db_failed = FALSE

\* SessionState::new and the 220 banner, over an empty store
Init == SessionNew /\ StoreEmpty /\ SendIdle /\ SenderIdle /\ ClientIdle /\ WireIdle

\* the commands of the lines the client may send, and those with a given verb
Commands == { SMTPCommand_parse(line) : line \in CommandLines }
CommandsOf(verb) == { cmd \in Commands : ~cmd.panic /\ cmd.verb = verb }
HeloCommands == CommandsOf(W_HELO)
EhloCommands == CommandsOf(W_EHLO)
MailCommands == CommandsOf(W_MAIL)
RcptCommands == CommandsOf(W_RCPT)
DataCommands == CommandsOf(W_DATA)
BdatCommands == CommandsOf(W_BDAT)
KnownVerbs == {W_HELO, W_EHLO, W_MAIL, W_RCPT, W_DATA, W_BDAT, W_RSET, W_NOOP, W_HELP, W_EXPN, W_QUIT}
UnknownCommands == { cmd \in Commands : ~cmd.panic /\ cmd.verb \notin KnownVerbs }

\* the command loop is reading: the session is open, and still followed
Listening == ~closed /\ next_id < MaxStored

Helo ==
    /\ Listening
    /\ \E cmd \in HeloCommands : Step(W_HELO, cmd.args, handle_helo(Session, cmd, "SMTP"))
    /\ UNCHANGED <<sendVars, senderVars, clientVars, wireVars>>

Ehlo ==
    /\ Listening
    /\ \E cmd \in EhloCommands : Step(W_EHLO, cmd.args, handle_helo(Session, cmd, "ESMTP"))
    /\ UNCHANGED <<sendVars, senderVars, clientVars, wireVars>>

Mail ==
    /\ Listening
    /\ \E cmd \in MailCommands : Step(W_MAIL, cmd.args, handle_mail(Session, cmd))
    /\ UNCHANGED <<sendVars, senderVars, clientVars, wireVars>>

Rcpt ==
    /\ Listening
    /\ \E cmd \in RcptCommands :
        /\ Len(forward_paths) < MaxRcpt
        /\ Step(W_RCPT, cmd.args, handle_rcpt(Session, cmd))
    /\ UNCHANGED <<sendVars, senderVars, clientVars, wireVars>>

\* the store operations of a handler that may fail: those it makes when none
\* fails, counted in tried
FailurePoints(tried) == IF tried.finalized THEN 0..tried.db.ops ELSE {0}

\* DATA: the handler runs with the store operation failAt failing, or none
DataStep(cmd, wire, tried) ==
    \E failAt \in FailurePoints(tried) :
        Step(W_DATA, cmd.args, IF failAt = 0 THEN tried
                     ELSE handle_data(Session, cmd, wire, Store(failAt)))

Data ==
    /\ Listening
    /\ \E cmd \in DataCommands, wire \in DataWires :
        DataStep(cmd, wire, handle_data(Session, cmd, wire, Store(0)))
    /\ UNCHANGED <<sendVars, senderVars, clientVars, wireVars>>

\* BDAT: the client sends the octets it announced, or the stream ends early
BdatStep(cmd, chunk, tried) ==
    /\ tried.consumed = Len(chunk)
    /\ Len(tried.s.binary_data) <= MaxBuffered
    /\ \E failAt \in FailurePoints(tried) :
        Step(W_BDAT, cmd.args, IF failAt = 0 THEN tried
                     ELSE handle_bdat(Session, cmd, chunk, Store(failAt)))

Bdat ==
    /\ Listening
    /\ \E cmd \in BdatCommands, chunk \in Chunks :
        BdatStep(cmd, chunk, handle_bdat(Session, cmd, chunk, Store(0)))
    /\ UNCHANGED <<sendVars, senderVars, clientVars, wireVars>>

Rset ==
    /\ Listening
    /\ \E cmd \in CommandsOf(W_RSET) : Step(W_RSET, cmd.args, handle_rset(Session))
    /\ UNCHANGED <<sendVars, senderVars, clientVars, wireVars>>

Noop ==
    /\ Listening
    /\ \E cmd \in CommandsOf(W_NOOP) :
        Step(W_NOOP, cmd.args, Handled(Session, <<Response(250, "Well that was a waste")>>))
    /\ UNCHANGED <<sendVars, senderVars, clientVars, wireVars>>

HelpExpn ==
    /\ Listening
    /\ \E cmd \in CommandsOf(W_HELP) \cup CommandsOf(W_EXPN) :
        Step(cmd.verb, cmd.args, Handled(Session, <<Response(502, "No")>>))
    /\ UNCHANGED <<sendVars, senderVars, clientVars, wireVars>>

Quit ==
    /\ Listening
    /\ \E cmd \in CommandsOf(W_QUIT) :
        Step(W_QUIT, cmd.args, [Handled(Session, <<Response(221, "Toodles!")>>) EXCEPT !.closed = TRUE])
    /\ UNCHANGED <<sendVars, senderVars, clientVars, wireVars>>

Unknown ==
    /\ Listening
    /\ \E cmd \in UnknownCommands : Step(cmd.verb, cmd.args, Handled(Session, <<GoReadTheRFCs(500)>>))
    /\ UNCHANGED <<sendVars, senderVars, clientVars, wireVars>>

\* a command line without a token: SMTPCommand::parse panics and the task ends
EmptyLine ==
    /\ Listening
    /\ \E cmd \in Commands :
        /\ cmd.panic
        /\ Step(<<>>, <<>>, [Handled(Session, <<>>) EXCEPT !.closed = TRUE])
    /\ UNCHANGED <<sendVars, senderVars, clientVars, wireVars>>

\* read_line fails with InvalidData: 553 and the loop goes on
InvalidUtf8 ==
    /\ Listening
    /\ StepRead("invalid_data", <<>>, <<>>, Handled(Session, <<Response(553, "UTF8 only please")>>))
    /\ UNCHANGED <<sendVars, senderVars, clientVars, wireVars>>

\* read_line returns 0, or fails otherwise: the loop ends
Eof ==
    /\ Listening
    /\ StepRead("eof", <<>>, <<>>, [Handled(Session, <<>>) EXCEPT !.closed = TRUE])
    /\ UNCHANGED <<sendVars, senderVars, clientVars, wireVars>>

Next ==
    \/ Helo \/ Ehlo \/ Mail \/ Rcpt \/ Data \/ Bdat \/ Rset \/ Noop \/ HelpExpn
    \/ Quit \/ Unknown \/ EmptyLine \/ InvalidUtf8 \/ Eof

Spec == Init /\ [][Next]_vars


(***************************************************************************)
(* client.rs send_mail.  The resolver is a fixed zone: the MX records of a *)
(* domain in the order the answer lists them, and the addresses of an      *)
(* exchange in the order the answer lists them.                            *)
(***************************************************************************)
\* SendingError, and Ok(())
Ok == [kind |-> "Ok", text |-> ""]
Err(kind, text) == [kind |-> kind, text |-> text]
InvalidAddress == Err("InvalidAddress", "")

D_x == <<"x">>
D_y == <<"y">>
D_w == <<"w">>
D_z == <<"z">>
D_v == <<"v">>
D_lit == <<":", ":", "1">>
\* the same address, written with a leading zero group
D_lit0 == <<"0", ":", ":", "1">>
H_mx1 == <<"m", "1", ".">>
H_mx2 == <<"m", "2", ".">>
H_mxw == <<"m", "w", ".">>
H_mxv == <<"m", "v", ".">>

MxRecord(preference, exchange) == [preference |-> preference, exchange |-> exchange]
IpAddr(family, ip) == [family |-> family, ip |-> ip]

\* config.resolver.mx_lookup(domain): None when the lookup fails
mx_lookup(domain) ==
    CASE domain = D_x -> Some(<<MxRecord(20, H_mx2), MxRecord(10, H_mx1)>>)
      [] domain = D_y -> Some(<<MxRecord(1, H_mx1), MxRecord(2, H_mx2)>>)
      [] domain = D_w -> Some(<<MxRecord(10, H_mxw)>>)
      [] domain = D_v -> Some(<<MxRecord(10, H_mxv)>>)
      [] OTHER -> None

\* config.resolver.lookup_ip(exchange): None when the lookup fails
lookup_ip(exchange) ==
    CASE exchange = H_mx1 -> Some(<<IpAddr("V4", "192.0.2.1"), IpAddr("V6", "2001:db8::1")>>)
      [] exchange = H_mx2 -> Some(<<IpAddr("V6", "2001:db8::2")>>)
      [] exchange = H_mxw -> Some(<<IpAddr("V4", "192.0.2.9"), IpAddr("V4", "192.0.2.8")>>)
      [] OTHER -> None

\* std::net::IpAddr::from_str
IpAddr_from_str(domain) ==
    IF domain \in {D_lit, D_lit0} THEN Some(IpAddr("V6", "::1")) ELSE None

\* IpAddr::to_string: the canonical text of the address
IpAddr_to_string(a) == IF a.ip = "::1" THEN D_lit ELSE <<a.ip>>

\* str::trim_end_matches('.')
RECURSIVE trim_end_matches_dot(_)
trim_end_matches_dot(s) ==
    IF s # <<>> /\ s[Len(s)] = "." THEN trim_end_matches_dot(Popped(s)) ELSE s

\* slice::sort_by_key: a stable sort; keys[i] is the key of s[i]; an element
\* goes after the elements with a smaller key and after the earlier elements
\* with an equal key
sort_by_key(s, keys) ==
    LET rank(i) == Cardinality({ j \in DOMAIN s :
                        \/ keys[j] < keys[i]
                        \/ (keys[j] = keys[i] /\ j < i) }) + 1
    IN  [r \in DOMAIN s |-> s[CHOOSE i \in DOMAIN s : rank(i) = r]]

MXAddress(address, domain) == [address |-> address, domain |-> domain]

\* send_mail lines 73-81: the addresses of the exchanges in order, an
\* exchange whose lookup fails left out
RECURSIVE mx_targets(_)
mx_targets(mxs) ==
    IF mxs = <<>> THEN <<>>
    ELSE (IF lookup_ip(Head(mxs).exchange) = None THEN <<>>
          ELSE [i \in DOMAIN Unwrap(lookup_ip(Head(mxs).exchange)) |->
                    MXAddress(Unwrap(lookup_ip(Head(mxs).exchange))[i],
                              trim_end_matches_dot(Head(mxs).exchange))])
         \o mx_targets(Tail(mxs))

\* the same, but the targets stay in the order of preference
sort_by_family_Unsorted(addr) == addr

\* mxs.sort_by_key(|mx| mx.preference())
sort_by_preference(mxs) == sort_by_key(mxs, [i \in DOMAIN mxs |-> mxs[i].preference])
\* addr.sort_by_key(|a| match a.address { V6 => 0, V4 => 1 })
sort_by_family(addr) ==
    sort_by_key(addr, [i \in DOMAIN addr |-> IF addr[i].address.family = "V6" THEN 0 ELSE 1])

\* send_mail lines 64-88: the targets of a domain before the family sort;
\* None stands for Err(InvalidAddress)
domain_targets(domain) ==
    IF IpAddr_from_str(domain) # None
    THEN Some(<<MXAddress(Unwrap(IpAddr_from_str(domain)),
                          IpAddr_to_string(Unwrap(IpAddr_from_str(domain))))>>)
    ELSE IF mx_lookup(domain) = None THEN None
    ELSE IF mx_targets(sort_by_preference(Unwrap(mx_lookup(domain)))) = <<>> THEN None
    ELSE Some(mx_targets(sort_by_preference(Unwrap(mx_lookup(domain)))))

\* send_mail lines 57-101: one recipient string to its ForwardPath
resolve(p) ==
    IF LastIndexOf(p, "@") = 0 THEN None
    ELSE IF domain_targets(SliceFrom(p, LastIndexOf(p, "@"))) = None THEN None
    ELSE Some([address |-> [local_part |-> SubSeq(p, 1, LastIndexOf(p, "@") - 1),
                            domain |-> SliceFrom(p, LastIndexOf(p, "@"))],
               mx_addresses |-> sort_by_family(
                    Unwrap(domain_targets(SliceFrom(p, LastIndexOf(p, "@")))))])

Query(kind, name) == [kind |-> kind, name |-> name]

\* send_mail lines 69-81: the queries for a domain that is no address: the
\* MX query, and when it is answered one address query per exchange, in the
\* order of preference
domain_queries(domain) ==
    <<Query("MX", domain)>>
    \o (IF mx_lookup(domain) = None THEN <<>>
        ELSE [i \in DOMAIN Unwrap(mx_lookup(domain)) |->
                Query("IP", sort_by_preference(Unwrap(mx_lookup(domain)))[i].exchange)])

\* send_mail lines 57-88: the queries for one recipient string
resolver_queries(p) ==
    IF LastIndexOf(p, "@") = 0 THEN <<>>
    ELSE IF IpAddr_from_str(SliceFrom(p, LastIndexOf(p, "@"))) # None THEN <<>>
    ELSE domain_queries(SliceFrom(p, LastIndexOf(p, "@")))

\* send_mail line 57: the recipients are resolved one after the other
RECURSIVE all_queries(_)
all_queries(paths) ==
    IF paths = <<>> THEN <<>> ELSE resolver_queries(Head(paths)) \o all_queries(Tail(paths))

\* the same, but the slot of a recipient that does not resolve stays Ok
initial_out_list_AllOk(paths) == [i \in DOMAIN paths |-> Ok]

\* send_mail lines 52-55 and 102-111: the slots start Ok; the slot of a
\* recipient that does not resolve becomes InvalidAddress
initial_out_list(paths) ==
    [i \in DOMAIN paths |-> IF resolve(paths[i]) = None THEN InvalidAddress ELSE Ok]

\* send_mail lines 113-122: the resolved recipients from index k on are put
\* into the first group with an equal MX sequence, or open a new group
RECURSIVE group_from(_, _, _)
group_from(paths, k, grouped) ==
    IF k > Len(paths) THEN grouped
    ELSE IF resolve(paths[k]) = None THEN group_from(paths, k + 1, grouped)
    ELSE IF \E g \in DOMAIN grouped : grouped[g].mx_addresses = Unwrap(resolve(paths[k])).mx_addresses
    THEN group_from(paths, k + 1,
            [grouped EXCEPT ![CHOOSE g \in DOMAIN grouped :
                                /\ grouped[g].mx_addresses = Unwrap(resolve(paths[k])).mx_addresses
                                /\ \A h \in 1..(g - 1) :
                                     grouped[h].mx_addresses # Unwrap(resolve(paths[k])).mx_addresses]
                             .addresses = Append(@, <<k, Unwrap(resolve(paths[k])).address>>)])
    ELSE group_from(paths, k + 1,
            Append(grouped, [addresses |-> <<<<k, Unwrap(resolve(paths[k])).address>>>>,
                             mx_addresses |-> Unwrap(resolve(paths[k])).mx_addresses]))
\* the same, but every resolved recipient opens a group of its own
forward_paths_grouped_OneEach(paths) ==
    LET resolved == SelectSeq([k \in DOMAIN paths |-> k], LAMBDA k : resolve(paths[k]) # None)
    IN  [g \in DOMAIN resolved |->
            [addresses |-> <<<<resolved[g], Unwrap(resolve(paths[resolved[g]])).address>>>>,
             mx_addresses |-> Unwrap(resolve(paths[resolved[g]])).mx_addresses]]

forward_paths_grouped(paths) == group_from(paths, 1, <<>>)

\* send_mail line 125: the indexes of a group
indexes(group) == [j \in DOMAIN group.addresses |-> group.addresses[j][1]]

\* send_mail line 126: the addresses of a group, given to try_send_mail
addresses(group) == [j \in DOMAIN group.addresses |-> group.addresses[j][2]]

\* the same, but the error is written at the position inside the group
fan_out_ByPosition(out_list, group, last_error) ==
    IF last_error = None THEN out_list
    ELSE [i \in DOMAIN out_list |->
            IF i \in DOMAIN indexes(group) THEN Unwrap(last_error) ELSE out_list[i]]

\* send_mail lines 146-150: the error of a group goes to the slots of its members
fan_out(out_list, group, last_error) ==
    IF last_error = None THEN out_list
    ELSE [i \in DOMAIN out_list |->
            IF \E j \in DOMAIN indexes(group) : indexes(group)[j] = i
            THEN Unwrap(last_error) ELSE out_list[i]]

\* the same, but a transient error lets the loop go on to the next target
stops_loop_NotOnTransient(result) == result.kind \in {"Ok", "PermanentError"}

\* send_mail lines 129-140: the arms of the match that break
stops_loop(result) == result.kind \in {"Ok", "PermanentError", "TransientError"}

\* send_mail lines 129-144: last_error after an attempt
next_last_error(last_error, result) ==
    IF result.kind = "Ok" THEN last_error ELSE Some(result)


(***************************************************************************)
(* One call of send_mail: the recipients are resolved and grouped, then    *)
(* one step per await of try_send_mail.                                    *)
(***************************************************************************)
R_ax == <<"a", "@", "x">>
R_by == <<"b", "@", "y">>
R_cw == <<"c", "@", "w">>
R_d == <<"d">>
R_ez == <<"e", "@", "z">>
R_lit == <<"f", "@">> \o D_lit
R_lit0 == <<"h", "@">> \o D_lit0
R_gv == <<"g", "@", "v">>
Recipients == {R_ax, R_by, R_cw, R_d, R_ez, R_lit, R_lit0, R_gv}

RecipientLists == UNION { [1..n -> Recipients] : n \in 0..MaxPaths }

\* client.rs try_send_mail, as send_mail sees it: the connection fails, or
\* it is made and then a message that does not parse is InvalidMessage, or
\* the session with the target succeeds or fails; an error names the target
try_send_mail_results(data_valid, mx_address) ==
    IF ~data_valid
    THEN { Err("ConnectionError", mx_address.address.ip), Err("InvalidMessage", "") }
    ELSE { Ok, Err("ConnectionError", mx_address.address.ip),
           Err("TransientError", mx_address.address.ip),
           Err("PermanentError", mx_address.address.ip) }

InitSend ==
    /\ SessionNew /\ StoreEmpty /\ SenderIdle /\ ClientIdle /\ WireIdle
    /\ sm_pc = "call"
    /\ sm_forward_paths \in RecipientLists
    /\ sm_data_valid \in BOOLEAN
    /\ sm_out_list = <<>> /\ sm_grouped = <<>> /\ sm_group = 0 /\ sm_mx = 0
    /\ sm_last_error = None /\ sm_attempts = <<>> /\ sm_verdicts = <<>> /\ sm_queries = <<>>

\* send_mail lines 52-122
SendResolve ==
    /\ sm_pc = "call"
    /\ sm_out_list' = initial_out_list(sm_forward_paths)
    /\ sm_grouped' = forward_paths_grouped(sm_forward_paths)
    /\ sm_queries' = all_queries(sm_forward_paths)
    /\ sm_group' = 1 /\ sm_mx' = 1 /\ sm_last_error' = None
    /\ sm_pc' = IF forward_paths_grouped(sm_forward_paths) = <<>> THEN "done" ELSE "attempt"
    /\ UNCHANGED <<sm_forward_paths, sm_attempts, sm_verdicts, sm_data_valid>>
    /\ UNCHANGED <<sessionVars, ioVars, storeVars, senderVars, clientVars, wireVars>>

\* send_mail lines 124-151: the attempt on target sm_mx of group sm_group
\* gave result; last_error is the error kept after it
Attempted(group, result, last_error) ==
    /\ sm_attempts' = Append(sm_attempts, [group |-> sm_group, mx |-> sm_mx,
                                           target |-> group.mx_addresses[sm_mx],
                                           indexes |-> indexes(group),
                                           addresses |-> addresses(group),
                                           result |-> result])
    /\ IF stops_loop(result) \/ sm_mx = Len(group.mx_addresses)
       THEN /\ sm_out_list' = fan_out(sm_out_list, group, last_error)
            /\ sm_verdicts' = Append(sm_verdicts, IF last_error = None THEN Ok ELSE Unwrap(last_error))
            /\ sm_group' = sm_group + 1 /\ sm_mx' = 1 /\ sm_last_error' = None
            /\ sm_pc' = IF sm_group = Len(sm_grouped) THEN "done" ELSE "attempt"
       ELSE /\ sm_mx' = sm_mx + 1 /\ sm_last_error' = last_error
            /\ UNCHANGED <<sm_out_list, sm_verdicts, sm_group, sm_pc>>

TrySendMail ==
    /\ sm_pc = "attempt"
    /\ \E result \in try_send_mail_results(sm_data_valid,
                        sm_grouped[sm_group].mx_addresses[sm_mx]) :
        Attempted(sm_grouped[sm_group], result, next_last_error(sm_last_error, result))
    /\ UNCHANGED <<sm_forward_paths, sm_grouped, sm_data_valid, sm_queries>>
    /\ UNCHANGED <<sessionVars, ioVars, storeVars, senderVars, clientVars, wireVars>>

NextSend == SendResolve \/ TrySendMail

SpecSend == InitSend /\ [][NextSend]_vars


(***************************************************************************)
(* sender.rs sending_task, next to the server sessions that fill the       *)
(* outbound queue.                                                         *)
(***************************************************************************)
ParsedPlain == parse_and_validate_parsed_mail(MsgPlain)
ParsedMulti == parse_and_validate_parsed_mail(MsgMulti)

InitSender ==
    /\ SessionNew /\ StoreEmpty /\ SendIdle /\ ClientIdle /\ WireIdle
    /\ snd_pc = "connect" /\ snd_forwards = <<>> /\ snd_results = <<>> /\ snd_attempted = {}

\* a server session accepts a message: queue_confirmation_mail runs, the
\* store operation failAt failing or none
EnqueueStep(rcpt_to, mail, tried) ==
    \E failAt \in 0..tried.db.ops :
        SetStore(IF failAt = 0 THEN tried.db
                 ELSE queue_confirmation_mail(rcpt_to, mail, Store(failAt)).db)

Enqueue ==
    /\ next_id < MaxQueued
    /\ \E mail \in {ParsedPlain, ParsedMulti} :
        EnqueueStep(W_alice, mail, queue_confirmation_mail(W_alice, mail, Store(0)))
    /\ UNCHANGED <<sessionVars, ioVars, sendVars, senderVars, clientVars, wireVars>>

\* process_email for one recipient, insert by insert, as the other tasks
\* see it.  The store the session starts from, without rows: the rows it
\* adds are those process_recipient makes
SessionStore(failAt) ==
    [mail_subpart |-> <<>>, inbound_queue |-> <<>>, outbound_message |-> <<>>,
     outbound_queue |-> <<>>, next_id |-> next_id, ops |-> 0, failAt |-> failAt,
     failed |-> FALSE]
\* the session of the message: greeted, with a reverse path and one recipient
SessionOf(recipient) ==
    [client_identity |-> Some(W_client), protocol |-> Some("SMTP"),
     reverse_path |-> Some(A_f1), forward_paths |-> <<recipient>>, binary_data |-> <<>>]
Tables == {"mail_subpart", "inbound_queue", "outbound_message", "outbound_queue"}
\* what process_recipient has inserted after its first k store operations
rows_after(recipient, data, k) ==
    process_recipient(SessionOf(recipient), recipient, data, SessionStore(k + 1)).db
\* the row store operation k inserts, if it inserts one
row_of(recipient, data, k) ==
    { [table |-> T, row |-> rows_after(recipient, data, k)[T][Len(rows_after(recipient, data, k)[T])]] :
        T \in { T \in Tables : Len(rows_after(recipient, data, k)[T])
                                > Len(rows_after(recipient, data, k - 1)[T]) } }
\* the inserts of process_recipient from store operation k on, in order
RECURSIVE inserts_from(_, _, _, _)
inserts_from(recipient, data, k, n) ==
    IF k > n THEN <<>>
    ELSE (IF row_of(recipient, data, k) = {} THEN <<>>
          ELSE <<CHOOSE r \in row_of(recipient, data, k) : TRUE>>)
         \o inserts_from(recipient, data, k + 1, n)
inserts(recipient, data) ==
    inserts_from(recipient, data, 1,
                 process_recipient(SessionOf(recipient), recipient, data, SessionStore(0)).db.ops)

\* a session starts process_email for a message: its uuids are drawn (they
\* are fresh whenever they are drawn), its inserts are still to make; the
\* sessions start while the outbound tables are empty, which leaves every
\* order of their inserts open
SessionAccept ==
    /\ outbound_message = <<>> /\ outbound_queue = <<>>
    /\ \E s \in Sessions, data \in {MsgPlain, MsgMulti} :
        /\ srv_pending[s] = None
        /\ srv_pending' = [srv_pending EXCEPT ![s] = Some(inserts(W_alice, data))]
        /\ next_id' = process_recipient(SessionOf(W_alice), W_alice, data, SessionStore(0)).db.next_id
    /\ UNCHANGED <<mail_subpart, inbound_queue, outbound_message, outbound_queue>>
    /\ UNCHANGED <<sessionVars, ioVars, sendVars, senderVars, clientVars, wireVars>>

\* the table after one insert
Inserted(table, name, insert) == IF insert.table = name THEN Append(table, insert.row) ELSE table

\* a session makes its next insert
SessionInsert ==
    /\ \E s \in Sessions :
        /\ srv_pending[s] # None
        /\ Unwrap(srv_pending[s]) # <<>>
        /\ mail_subpart' = Inserted(mail_subpart, "mail_subpart", Head(Unwrap(srv_pending[s])))
        /\ inbound_queue' = Inserted(inbound_queue, "inbound_queue", Head(Unwrap(srv_pending[s])))
        /\ outbound_message' = Inserted(outbound_message, "outbound_message", Head(Unwrap(srv_pending[s])))
        /\ outbound_queue' = Inserted(outbound_queue, "outbound_queue", Head(Unwrap(srv_pending[s])))
        /\ srv_pending' = [srv_pending EXCEPT ![s] = Some(Tail(Unwrap(srv_pending[s])))]
    /\ UNCHANGED next_id
    /\ UNCHANGED <<sessionVars, ioVars, sendVars, senderVars, clientVars, wireVars>>

\* sending_task lines 125-134: no connection; the task sleeps and starts over
SenderConnectFails ==
    /\ snd_pc = "connect"
    /\ snd_pc' = "sleep"
    /\ UNCHANGED <<snd_forwards, snd_results, snd_attempted>>
    /\ UNCHANGED <<sessionVars, ioVars, storeVars, sendVars, clientVars, wireVars>>

\* sending_task lines 139-141: the items in state Queued
QueuedItems == SelectSeq(outbound_queue, LAMBDA item : item.state = "Queued")

\* sending_task lines 143-155: the Queued items by message
RECURSIVE message_forwards(_, _)
message_forwards(items, map) ==
    IF items = <<>> THEN map
    ELSE IF \E m \in DOMAIN map : map[m].id = Head(items).message_id
    THEN message_forwards(Tail(items),
            [m \in DOMAIN map |-> IF map[m].id = Head(items).message_id
                                  THEN [map[m] EXCEPT !.items = Append(@, Head(items))]
                                  ELSE map[m]])
    ELSE message_forwards(Tail(items),
            Append(map, [id |-> Head(items).message_id, items |-> <<Head(items)>>]))

\* sending_task lines 125-155: a connection, then the Queued items are loaded
SenderLoad ==
    /\ snd_pc = "connect"
    /\ snd_forwards' = message_forwards(QueuedItems, <<>>)
    /\ snd_pc' = "send"
    /\ UNCHANGED <<snd_results, snd_attempted>>
    /\ UNCHANGED <<sessionVars, ioVars, storeVars, sendVars, clientVars, wireVars>>

\* what send_mail returns to the sender loop for one recipient
SendResults == { Ok, Err("TransientError", ""), Err("PermanentError", "") }

Without(s, k) == SubSeq(s, 1, k - 1) \o SubSeq(s, k + 1, Len(s))

\* sending_task lines 157-166: send_mail for one message of the map (a
\* HashMap: any order); the results are bound to a name and not used
SenderSend ==
    /\ snd_pc = "send"
    /\ \E k \in DOMAIN snd_forwards :
        /\ snd_results' \in [DOMAIN snd_forwards[k].items -> SendResults]
        /\ snd_attempted' = snd_attempted \cup
                { snd_forwards[k].items[i].id : i \in DOMAIN snd_forwards[k].items }
        /\ snd_forwards' = Without(snd_forwards, k)
    /\ UNCHANGED snd_pc
    /\ UNCHANGED <<sessionVars, ioVars, storeVars, sendVars, clientVars, wireVars>>

\* sending_task lines 171-173: the cycle is over, the task sleeps
SenderDelay ==
    /\ snd_pc = "send"
    /\ snd_forwards = <<>>
    /\ snd_pc' = "sleep"
    /\ UNCHANGED <<snd_forwards, snd_results, snd_attempted>>
    /\ UNCHANGED <<sessionVars, ioVars, storeVars, sendVars, clientVars, wireVars>>

\* the five seconds have passed: the loop starts over
SenderWake ==
    /\ snd_pc = "sleep"
    /\ snd_pc' = "connect"
    /\ UNCHANGED <<snd_forwards, snd_results, snd_attempted>>
    /\ UNCHANGED <<sessionVars, ioVars, storeVars, sendVars, clientVars, wireVars>>

SenderTask == SenderConnectFails \/ SenderLoad \/ SenderSend \/ SenderDelay \/ SenderWake

NextSender ==
    \/ Enqueue \/ SessionAccept \/ SessionInsert
    \/ SenderConnectFails \/ SenderLoad \/ SenderSend \/ SenderDelay \/ SenderWake

\* the sender task keeps running, and the store keeps giving connections
SpecSender ==
    InitSender /\ [][NextSender]_vars /\ WF_vars(SenderTask) /\ SF_vars(SenderLoad)


(***************************************************************************)
(* The wire formats, octet by octet: Display and parse of SMTPCommand and  *)
(* SMTPResponse (proto.rs), the DATA payload as send_data writes it        *)
(* (client.rs) and as handle_data reads it (server.rs), and the validation *)
(* of a message.  A call is drawn at the start; the writer acts, then the  *)
(* reader.                                                                  *)
(***************************************************************************)
\* longest body given to send_data
MaxBody == 4
\* most lines of a reply, and of what a peer sends in place of a reply
MaxReplyLines == 2
\* most header lines added to the Date and From lines of a message
MaxExtraHeaders == 2

\* Display for u16
RECURSIVE ToDecimal(_)
ToDecimal(n) ==
    IF n < 10 THEN <<Digits[n + 1]>>
    ELSE Append(ToDecimal(n \div 10), Digits[(n % 10) + 1])

\* Display for SMTPCommand, proto.rs lines 108-116
RECURSIVE fmt_args(_)
fmt_args(args) == IF args = <<>> THEN <<>> ELSE SP \o Head(args) \o fmt_args(Tail(args))
SMTPCommand_fmt(cmd) == cmd.verb \o fmt_args(cmd.args) \o CRLF

\* Display for SMTPResponse, proto.rs lines 76-84: None is fmt::Error
RECURSIVE fmt_lines(_, _)
fmt_lines(code, lines) ==
    IF Len(lines) = 1 THEN ToDecimal(code) \o <<" ">> \o lines[1] \o CRLF
    ELSE ToDecimal(code) \o <<"-">> \o lines[1] \o CRLF \o fmt_lines(code, Tail(lines))
SMTPResponse_fmt(resp) ==
    IF resp.lines = <<>> THEN None ELSE Some(fmt_lines(resp.code, resp.lines))

\* AsyncBufReadExt::read_line: the octets up to and with the next "\n", or
\* all that is left when the stream ends first
read_line(wire) ==
    IF FirstIndexOf(wire, "\n") = 0 THEN wire ELSE SubSeq(wire, 1, FirstIndexOf(wire, "\n"))

\* str::parse::<u16>: an optional "+", then decimal digits, at most 65535
parse_u16(s) ==
    IF s # <<>> /\ Head(s) = "+"
    THEN [ok |-> parse_usize(Tail(s)).ok /\ parse_usize(Tail(s)).v <= 65535,
          v |-> parse_usize(Tail(s)).v]
    ELSE [ok |-> parse_usize(s).ok /\ parse_usize(s).v <= 65535, v |-> parse_usize(s).v]

\* str::trim_end_matches("\r\n")
RECURSIVE trim_end_matches_crlf(_)
trim_end_matches_crlf(s) ==
    IF Len(s) >= 2 /\ SubSeq(s, Len(s) - 1, Len(s)) = CRLF
    THEN trim_end_matches_crlf(SubSeq(s, 1, Len(s) - 2))
    ELSE s

\* what parse_line and parse give: Ok, Err(String), or a panic of the task
ParseErr(err) == [kind |-> "err", code |-> 0, more |-> FALSE, lines |-> <<>>, rest |-> <<>>, err |-> err]
ParsePanic == [kind |-> "panic", code |-> 0, more |-> FALSE, lines |-> <<>>, rest |-> <<>>, err |-> ""]

\* SMTPResponse::parse_line, proto.rs lines 38-49, on the line read; rest is
\* what stays in the stream.  chars[..3] and chars[3] index out of range on
\* a line of fewer than three, or of three, characters
parsed_line(chars, rest) ==
    IF chars = <<>> THEN ParseErr("EOF")
    ELSE IF Len(chars) < 3 THEN ParsePanic
    ELSE IF ~parse_u16(SubSeq(chars, 1, 3)).ok THEN ParseErr("invalid digit found in string")
    ELSE IF Len(chars) < 4 THEN ParsePanic
    ELSE IF chars[4] \notin {" ", "-"} THEN ParseErr("Invalid character")
    ELSE [kind |-> "ok", code |-> parse_u16(SubSeq(chars, 1, 3)).v, more |-> chars[4] = "-",
          lines |-> <<trim_end_matches_crlf(SliceFrom(chars, 4))>>, rest |-> rest, err |-> ""]

\* SMTPResponse::parse_line, proto.rs lines 28-50
parse_line(wire) == parsed_line(read_line(wire), SliceFrom(wire, Len(read_line(wire))))

\* SMTPResponse::parse, proto.rs lines 59-70: the lines after the first
RECURSIVE parse_more(_, _)
parse_more(out, l) ==
    IF l.kind # "ok" THEN l
    ELSE IF l.code # out.code THEN ParseErr("Invalid response")
    ELSE IF l.more THEN parse_more([out EXCEPT !.lines = @ \o l.lines], parse_line(l.rest))
    ELSE [out EXCEPT !.lines = @ \o l.lines, !.more = FALSE, !.rest = l.rest]

\* SMTPResponse::parse, proto.rs lines 52-73
SMTPResponse_parse(wire) ==
    IF parse_line(wire).kind = "ok" /\ parse_line(wire).more
    THEN parse_more(parse_line(wire), parse_line(parse_line(wire).rest))
    ELSE parse_line(wire)

\* client.rs: SMTPResponse::parse(&mut stream).await.map_err(|e| ConnectionError(e))
read_reply(wire) ==
    IF SMTPResponse_parse(wire).kind = "err"
    THEN [kind |-> "Err", error |-> Err("ConnectionError", SMTPResponse_parse(wire).err),
          code |-> 0, lines |-> <<>>]
    ELSE [kind |-> SMTPResponse_parse(wire).kind, error |-> Ok,
          code |-> SMTPResponse_parse(wire).code, lines |-> SMTPResponse_parse(wire).lines]

\* client.rs send_data, lines 357-367: last_3 starts as [0, CR, LF]; a "."
\* that completes CR LF "." is written twice
RECURSIVE send_data_from(_, _, _)
send_data_from(data, last_3, out) ==
    IF data = <<>> THEN out
    ELSE send_data_from(Tail(data), <<last_3[2], last_3[3], Head(data)>>,
            IF <<last_3[2], last_3[3], Head(data)>> = <<"\r", "\n", ".">>
            THEN out \o <<Head(data), ".">>
            ELSE Append(out, Head(data)))
\* last_3 after the octets written have gone through the loop
last_3_after(last_3, written) ==
    IF Len(written) >= 3 THEN SubSeq(written, Len(written) - 2, Len(written))
    ELSE SubSeq(last_3 \o written, Len(written) + 1, Len(written) + 3)
\* the loop over data, run over its first half and then, with the last_3
\* the first half leaves, over its second half
RECURSIVE send_data_halves(_, _)
send_data_halves(data, last_3) ==
    IF Len(data) < 2 THEN send_data_from(data, last_3, <<>>)
    ELSE send_data_halves(SubSeq(data, 1, Len(data) \div 2), last_3)
         \o send_data_halves(SubSeq(data, (Len(data) \div 2) + 1, Len(data)),
                             last_3_after(last_3, SubSeq(data, 1, Len(data) \div 2)))
send_data(data) == send_data_halves(data, <<"NUL", "\r", "\n">>)

\* handle_send_mail lines 341-342: the body, then CRLF "." CRLF
data_payload(body) == send_data(body) \o CRLF \o <<".">> \o CRLF

\* server.rs handle_data, lines 150-174, octet by octet: lines are read up
\* to the line "." CRLF; a leading "." is dropped; rest is what is left in
\* the stream; eof when the stream ends first
RECURSIVE read_data_octets(_, _)
read_data_octets(wire, data) ==
    IF read_line(wire) = <<>> THEN [eof |-> TRUE, data |-> data, rest |-> <<>>]
    ELSE IF read_line(wire) = <<".">> \o CRLF
    THEN [eof |-> FALSE, data |-> data, rest |-> SliceFrom(wire, 3)]
    ELSE read_data_octets(SliceFrom(wire, Len(read_line(wire))),
            data \o (IF Head(read_line(wire)) = "." THEN Tail(read_line(wire))
                     ELSE read_line(wire)))

\* ---- the calls ----
\* a call: the function, and its argument in the field of its type
NoReply == [code |-> 0, lines |-> <<>>]
OctetsCall(fn, octets) == [fn |-> fn, octets |-> octets, resp |-> NoReply, msg |-> <<>>]
ReplyCall(resp) == [fn |-> "reply", octets |-> <<>>, resp |-> resp, msg |-> <<>>]
MessageCall(msg) == [fn |-> "validate", octets |-> <<>>, resp |-> NoReply, msg |-> msg]

\* sequences over a set of length at most n
SeqsUpTo(S, n) == UNION { [1..k -> S] : k \in 0..n }

BodyOctets == {"a", ".", "\r", "\n"}
Bodies == SeqsUpTo(BodyOctets, MaxBody)

\* replies to emit: a u16 code and one to MaxReplyLines lines of text
EmitCodes == {7, 99, 100, 250, 999, 1000, 65535}
Texts == { <<>>, <<"o", "k">>, <<"-", "x">>, <<"a", " ">> }
RepliesToEmit ==
    { [code |-> code, lines |-> lines] :
        code \in EmitCodes, lines \in SeqsUpTo(Texts, MaxReplyLines) \ {<<>>} }

\* what a peer may send where a reply is due, line by line
PeerLines ==
    { <<"2","5","0"," ","o","k">> \o CRLF, <<"2","5","0","-","a">> \o CRLF,
      <<"2","5","1"," ","b">> \o CRLF, <<"2","5","1","-","b">> \o CRLF,
      <<"2","5","0">> \o CRLF, <<"2","5","0">>, <<"2","5","\n">>, <<"2","\n">>, CRLF,
      <<"+","2","5"," ","x">> \o CRLF, <<"2","5","x"," ","y">> \o CRLF,
      <<"2","5","0","_","z">> \o CRLF }
RECURSIVE Concat(_)
Concat(ss) == IF ss = <<>> THEN <<>> ELSE Head(ss) \o Concat(Tail(ss))
PeerWires == { Concat(ls) : ls \in SeqsUpTo(PeerLines, MaxReplyLines) }

\* messages: the Date and From lines, or one of them, and some more header
\* lines, then the body
FromNobody == Hdr("From", TRUE, <<Group(<<>>)>>)
FromTwo == Hdr("From", TRUE, <<Single(A_f1), Single(A_r1)>>)
SenderLine == Hdr("Sender", TRUE, <<Single(A_f1)>>)
MessageIdLine == Hdr("Message-ID", TRUE, <<"id1">>)
MessageIdTwo == Hdr("Message-ID", TRUE, <<"id1", "id2">>)
ExtraHeaderLines ==
    { DateLine, FromLine, FromTwo, SenderLine, ReplyToLine,
      Hdr("To", TRUE, <<Single(A_r1)>>), Hdr("Cc", TRUE, <<>>), Hdr("Bcc", TRUE, <<>>),
      Hdr("Subject", TRUE, <<>>), MessageIdLine, MessageIdTwo,
      Hdr("In-Reply-To", TRUE, <<"id1">>), Hdr("References", TRUE, <<"id1", "id2">>) }
Messages ==
    { head \o extra \o <<Blank, Body(TRUE, <<>>)>> :
        head \in { <<DateLine, FromLine>>, <<DateLine>>, <<FromLine>>, <<DateLine, FromNobody>> },
        extra \in SeqsUpTo(ExtraHeaderLines, MaxExtraHeaders) }

WireCalls ==
    { OctetsCall("command", line) : line \in CommandLines }
    \cup { ReplyCall(resp) : resp \in RepliesToEmit }
    \cup { OctetsCall("read_reply", wire) : wire \in PeerWires }
    \cup { OctetsCall("data", body) : body \in Bodies }
    \cup { MessageCall(msg) : msg \in Messages }

InitWire ==
    /\ SessionNew /\ StoreEmpty /\ SendIdle /\ SenderIdle /\ ClientIdle
    /\ wr_pc = "call"
    /\ wr_call \in WireCalls
    /\ wr_wire = <<>>
    /\ wr_ret = <<>>

\* SMTPCommand::parse of a line received
ParseCommand ==
    /\ wr_pc = "call" /\ wr_call.fn = "command"
    /\ wr_ret' = SMTPCommand_parse(wr_call.octets)
    /\ wr_pc' = IF SMTPCommand_parse(wr_call.octets).panic THEN "done" ELSE "parsed"
    /\ UNCHANGED <<wr_call, wr_wire>>
    /\ UNCHANGED <<sessionVars, ioVars, storeVars, sendVars, senderVars, clientVars>>

\* to_string of the parsed command
EmitCommand ==
    /\ wr_pc = "parsed" /\ wr_call.fn = "command"
    /\ wr_wire' = SMTPCommand_fmt(wr_ret)
    /\ wr_pc' = "done"
    /\ UNCHANGED <<wr_call, wr_ret>>
    /\ UNCHANGED <<sessionVars, ioVars, storeVars, sendVars, senderVars, clientVars>>

\* server.rs send_response: a reply is written
EmitReply ==
    /\ wr_pc = "call" /\ wr_call.fn = "reply"
    /\ wr_wire' = Unwrap(SMTPResponse_fmt(wr_call.resp))
    /\ wr_pc' = "wire"
    /\ UNCHANGED <<wr_call, wr_ret>>
    /\ UNCHANGED <<sessionVars, ioVars, storeVars, sendVars, senderVars, clientVars>>

\* SMTPResponse::parse of the reply written
ParseReply ==
    /\ wr_pc = "wire" /\ wr_call.fn = "reply"
    /\ wr_ret' = SMTPResponse_parse(wr_wire)
    /\ wr_pc' = "done"
    /\ UNCHANGED <<wr_call, wr_wire>>
    /\ UNCHANGED <<sessionVars, ioVars, storeVars, sendVars, senderVars, clientVars>>

\* the client awaits a reply and the peer sends what it likes, then closes
ReadReply ==
    /\ wr_pc = "call" /\ wr_call.fn = "read_reply"
    /\ wr_wire' = wr_call.octets
    /\ wr_ret' = read_reply(wr_call.octets)
    /\ wr_pc' = "done"
    /\ UNCHANGED wr_call
    /\ UNCHANGED <<sessionVars, ioVars, storeVars, sendVars, senderVars, clientVars>>

\* the client, after 354, writes the body and the terminator
SendData ==
    /\ wr_pc = "call" /\ wr_call.fn = "data"
    /\ wr_wire' = data_payload(wr_call.octets)
    /\ wr_pc' = "wire"
    /\ UNCHANGED <<wr_call, wr_ret>>
    /\ UNCHANGED <<sessionVars, ioVars, storeVars, sendVars, senderVars, clientVars>>

\* the server, after 354, reads the payload
ReadData ==
    /\ wr_pc = "wire" /\ wr_call.fn = "data"
    /\ wr_ret' = read_data_octets(wr_wire, <<>>)
    /\ wr_pc' = "done"
    /\ UNCHANGED <<wr_call, wr_wire>>
    /\ UNCHANGED <<sessionVars, ioVars, storeVars, sendVars, senderVars, clientVars>>

\* parse_and_validate_parsed_mail of a message
Validate ==
    /\ wr_pc = "call" /\ wr_call.fn = "validate"
    /\ wr_ret' = parse_and_validate_parsed_mail(wr_call.msg)
    /\ wr_pc' = "done"
    /\ UNCHANGED <<wr_call, wr_wire>>
    /\ UNCHANGED <<sessionVars, ioVars, storeVars, sendVars, senderVars, clientVars>>

NextWire ==
    \/ ParseCommand \/ EmitCommand \/ EmitReply \/ ParseReply \/ ReadReply
    \/ SendData \/ ReadData \/ Validate

SpecWire == InitWire /\ [][NextWire]_vars


(***************************************************************************)
(* client.rs try_send_mail: one delivery attempt against one target.  The  *)
(* peer is the environment: at each await it answers with a reply, or the  *)
(* reply does not parse, or the write fails.                               *)
(***************************************************************************)
\* most addresses in the group handed to try_send_mail
MaxAddresses == 2

\* SMTPResponse::format_resp
RECURSIVE join_crlf(_)
join_crlf(lines) ==
    IF Len(lines) = 1 THEN lines[1] ELSE lines[1] \o "\r\n" \o join_crlf(Tail(lines))
format_resp(resp) == "Code: " \o ToString(resp.code) \o ", Message: " \o join_crlf(resp.lines)

\* what an await on the peer gives: a reply, an Err(String) of
\* SMTPResponse::parse, or an io::Error of write or flush
PeerReply(code, lines) == [kind |-> "reply", code |-> code, lines |-> lines, err |-> ""]
ParseFailed(err) == [kind |-> "err", code |-> 0, lines |-> <<>>, err |-> err]
WriteFailed == [kind |-> "io", code |-> 0, lines |-> <<>>, err |-> "io"]

\* the reply codes the peer uses
ReplyCodes == {220, 250, 251, 354, 421, 450, 451, 454, 500, 502, 503, 550, 554}
\* the extension lists a peer announces after EHLO
ExtensionLists ==
    { <<>>, <<"8BITMIME">>, <<"CHUNKING">>, <<"STARTTLS">>, <<"STARTTLS", "CHUNKING">>,
      <<"8BITMIME", "BINARYMIME", "SIZE 0">> }
PeerReplies ==
    { PeerReply(code, <<"x">>) : code \in ReplyCodes }
    \cup { PeerReply(250, <<"x">> \o ext) : ext \in ExtensionLists }
PeerOutcomes == PeerReplies \cup { ParseFailed("EOF"), ParseFailed("Invalid response"), WriteFailed }
\* an await that only reads
ReadOutcomes == PeerOutcomes \ {WriteFailed}
\* what the peer does after a command other than EHLO: its replies have one line
CommandOutcomes == { o \in PeerOutcomes : o.kind = "reply" => o.lines = <<"x">> }

BadStatusCode == Err("PermanentError", "Bad status code")

\* the match on a reply code: the accepted codes, the codes reported as
\* permanent and as transient with the reply text, and the rest
classify(resp, accepted, permanent, transient) ==
    IF resp.code \in accepted THEN Ok
    ELSE IF resp.code \in permanent THEN Err("PermanentError", format_resp(resp))
    ELSE IF resp.code \in transient THEN Err("TransientError", format_resp(resp))
    ELSE BadStatusCode

\* try_send_mail lines 174-179
classify_banner(resp) == classify(resp, {220}, {554}, {421})
\* handle_helo lines 226-255, EHLO; 502 is followed by HELO
classify_ehlo(resp) == classify(resp, {250, 502}, {500, 501, 550}, {421})
\* the same, but every reply to HELO is taken as a greeting
classify_helo_AcceptsAll(resp) == Ok
\* handle_helo lines 244-250, HELO
classify_helo(resp) == classify(resp, {250}, {550}, {})
\* try_send_mail lines 188-195
classify_starttls(resp) == classify(resp, {220}, {500, 501}, {421, 454})
\* handle_send_mail lines 270-277
classify_mail(resp) == classify(resp, {250}, {500, 501, 550, 552, 553, 555}, {421, 451, 452, 455})
\* the same, but a refused recipient does not end the attempt
classify_rcpt_AcceptsAll(resp) == Ok
\* handle_send_mail lines 283-290
classify_rcpt(resp) ==
    classify(resp, {250, 251}, {500, 501, 550, 551, 552, 553, 555, 503}, {421, 450, 451, 452, 453, 455})
\* handle_send_mail lines 304-311 and 317-324
classify_bdat(resp) == classify(resp, {250}, {500, 501, 503, 554}, {421})
\* handle_send_mail lines 329-336
classify_data(resp) == classify(resp, {354}, {500, 501, 503, 554}, {421})
\* handle_send_mail lines 345-346 and 351-352: the code is not looked at
classify_ignored(resp) == Ok

\* the outcome of an await as the `?` after it sees it: an io::Error and the
\* Err of SMTPResponse::parse become ConnectionError
verdict_of(outcome, classified) ==
    IF outcome.kind = "io" THEN Err("ConnectionError", "io")
    ELSE IF outcome.kind = "err" THEN Err("ConnectionError", outcome.err)
    ELSE classified

\* handle_helo lines 216-221 and 235-238
NoSupport ==
    [utf8_support |-> FALSE, binary_support |-> FALSE, chunking_support |-> FALSE,
     starttls_support |-> FALSE]
Contains(lines, word) == \E i \in DOMAIN lines : lines[i] = word
supported(extensions) ==
    [utf8_support |-> Contains(extensions, "8BITMIME"),
     binary_support |-> Contains(extensions, "BINARYMIME"),
     chunking_support |-> Contains(extensions, "CHUNKING"),
     starttls_support |-> Contains(extensions, "STARTTLS")]

\* the same, but a flag once set by an earlier EHLO stays set
helo_state_Merged(state, greeting) ==
    IF greeting.kind = "reply" /\ greeting.code = 250
    THEN [utf8_support |-> state.utf8_support \/ supported(Tail(greeting.lines)).utf8_support,
          binary_support |-> state.binary_support \/ supported(Tail(greeting.lines)).binary_support,
          chunking_support |-> state.chunking_support \/ supported(Tail(greeting.lines)).chunking_support,
          starttls_support |-> state.starttls_support \/ supported(Tail(greeting.lines)).starttls_support]
    ELSE state

\* handle_helo lines 216-239: the state handle_helo returns starts from all
\* flags false at every call, whatever the state of an earlier call was
helo_state(state, greeting) ==
    IF greeting.kind = "reply" /\ greeting.code = 250 THEN supported(Tail(greeting.lines))
    ELSE NoSupport

\* the group's addresses
ClientAddress(k) == [local_part |-> <<"u", Digits[k + 1]>>, domain |-> D_x]
ClientAddressLists == { [k \in 1..n |-> ClientAddress(k)] : n \in 1..MaxAddresses }

(***************************************************************************)
(* The message as mailparse::parse_mail gives it: the headers of the root  *)
(* part, the raw body of the root part and the subparts.                   *)
(***************************************************************************)
\* tokio::io::BufStream::new, line 165: the capacity of the write buffer
BufCapacity == 8192

K_CTE == <<"C","o","n","t","e","n","t","-","T","r","a","n","s","f","e","r","-",
           "E","n","c","o","d","i","n","g">>
K_Subject == <<"S","u","b","j","e","c","t">>
V_8bit == <<"8","b","i","t">>
V_binary == <<"b","i","n","a","r","y">>
V_base64 == <<"b","a","s","e","6","4">>
V_qp == <<"q","u","o","t","e","d","-","p","r","i","n","t","a","b","l","e">>
\* an octet above 127
HighOctet == "0xE9"

Header(key, value) == [key |-> key, value |-> value]
MailPart(headers, raw, subparts) == [headers |-> headers, raw |-> raw, subparts |-> subparts]
SubjectHeader == Header(K_Subject, <<"s">>)

\* MailHeaderMap::get_first_value: the value of the first header of that
\* name, the case of the name ignored
get_first_value(headers, key) ==
    IF \E i \in DOMAIN headers : eq_ignore_ascii_case(headers[i].key, key)
    THEN Some(headers[CHOOSE i \in DOMAIN headers :
                        /\ eq_ignore_ascii_case(headers[i].key, key)
                        /\ \A j \in 1..(i - 1) : ~eq_ignore_ascii_case(headers[j].key, key)].value)
    ELSE None

\* ParsedMail::get_body_encoded: the variant of Body, by the lowercased
\* value of the part's Content-Transfer-Encoding header
get_body_encoded(part) ==
    IF get_first_value(part.headers, K_CTE) = None THEN "SevenBit"
    ELSE IF to_lowercase(Unwrap(get_first_value(part.headers, K_CTE))) = V_base64 THEN "Base64"
    ELSE IF to_lowercase(Unwrap(get_first_value(part.headers, K_CTE))) = V_qp THEN "QuotedPrintable"
    ELSE IF to_lowercase(Unwrap(get_first_value(part.headers, K_CTE))) = V_8bit THEN "EightBit"
    ELSE IF to_lowercase(Unwrap(get_first_value(part.headers, K_CTE))) = V_binary THEN "Binary"
    ELSE "SevenBit"

\* quoted_printable::encode on short input without line ends: "=" and the
\* octets above 127 become "=" and two hexadecimal digits
RECURSIVE quoted_printable_encode(_)
quoted_printable_encode(raw) ==
    IF raw = <<>> THEN <<>>
    ELSE (IF Head(raw) = HighOctet THEN <<"=", "E", "9">>
          ELSE IF Head(raw) = "=" THEN <<"=", "3", "D">>
          ELSE <<Head(raw)>>)
         \o quoted_printable_encode(Tail(raw))

\* encode_body_part lines 377-382 and 384-389: the headers after the
\* re-encoding
requoted_headers(headers) ==
    Append(SelectSeq(headers, LAMBDA h : ~eq_ignore_ascii_case(h.key, K_CTE)), Header(K_CTE, V_qp))

\* client.rs encode_body_part, lines 369-393, on the part it is given: the
\* body to send and the part's headers afterwards
encode_body_part(session_state, part) ==
    IF \/ get_body_encoded(part) = "EightBit" /\ ~session_state.utf8_support
       \/ get_body_encoded(part) = "Binary" /\ ~session_state.binary_support
    THEN [body |-> quoted_printable_encode(part.raw), headers |-> requoted_headers(part.headers),
          requoted |-> TRUE]
    ELSE [body |-> part.raw, headers |-> part.headers, requoted |-> FALSE]

\* encode_header lines 395-398 on a value that is ASCII
encode_header(value) == value

\* handle_send_mail lines 297 and 338: one header as it is written
header_line(h) == h.key \o <<":", " ">> \o encode_header(h.value) \o CRLF

\* handle_send_mail lines 295-299: the header block of BDAT
RECURSIVE header_lines(_)
header_lines(headers) ==
    IF headers = <<>> THEN <<>> ELSE header_line(Head(headers)) \o header_lines(Tail(headers))
header_block(headers) == header_lines(headers) \o CRLF

\* handle_send_mail lines 337-342: the message after DATA, each header
\* through send_data, the blank line, the body through send_data, the
\* terminator
RECURSIVE stuffed_headers(_)
stuffed_headers(headers) ==
    IF headers = <<>> THEN <<>>
    ELSE send_data(header_line(Head(headers))) \o stuffed_headers(Tail(headers))
data_stream(headers, body) ==
    stuffed_headers(headers) \o CRLF \o send_data(body) \o CRLF \o <<".">> \o CRLF

\* AsyncWriteExt::write on the BufStream, lines 301 and 314: what is
\* shorter than the buffer is taken whole; a longer slice goes to the socket
\* in one write, which takes all of it or a part (here: half)
write_lengths(buf) ==
    IF Len(buf) < BufCapacity THEN {Len(buf)} ELSE {Len(buf), Len(buf) \div 2}

\* the messages given to try_send_mail: with one part and no encoding
\* named, 8bit, binary, base64; with a subpart that is 8bit, the raw body of
\* the root being the text before the first boundary, or the whole body
\* with the subpart in it; with a body as long as the write buffer
LargeBody == [i \in 1..BufCapacity |-> "a"]
ClientMessages ==
    { MailPart(<<SubjectHeader>>, <<"a">>, <<>>),
      MailPart(<<Header(K_CTE, V_8bit), SubjectHeader>>, <<HighOctet, "=">>, <<>>),
      MailPart(<<SubjectHeader, Header(K_CTE, V_binary)>>, <<"a", HighOctet>>, <<>>),
      MailPart(<<Header(K_CTE, V_base64)>>, <<"Y", "Q", "=", "=">>, <<>>),
      MailPart(<<SubjectHeader>>, <<"p">>,
               <<MailPart(<<Header(K_CTE, V_8bit)>>, <<HighOctet>>, <<>>)>>),
      MailPart(<<SubjectHeader>>, <<"p", HighOctet>>,
               <<MailPart(<<Header(K_CTE, V_8bit)>>, <<HighOctet>>, <<>>)>>),
      MailPart(<<SubjectHeader>>, LargeBody, <<>>) }
\* what stands for the data when parse_mail refuses it
NoMessage == MailPart(<<>>, <<>>, <<>>)

\* one write of the client: a command with its arguments and the octets
\* written after it before the reply is awaited; verb "" is octets alone
Written(verb, args, octets) == [verb |-> verb, args |-> args, octets |-> octets]
Hostname == <<"relay-mx.as207960.net">>
ReversePath == <<"r", "@", "y">>
V_BODY8 == <<"B","O","D","Y","=","8","B","I","T","M","I","M","E">>
V_LAST == <<"L","A","S","T">>
\* handle_send_mail lines 263-266
mail_args(state) ==
    <<W_FROM \o LT \o ReversePath \o GT>> \o (IF state.utf8_support THEN <<V_BODY8>> ELSE <<>>)
\* handle_send_mail line 280
rcpt_args(address) == <<W_TO \o LT \o address.local_part \o AT \o address.domain \o GT>>

InitClient ==
    /\ SessionNew /\ StoreEmpty /\ SendIdle /\ SenderIdle /\ WireIdle
    /\ cl_pc = "connect"
    /\ cl_state = NoSupport /\ cl_tls = FALSE
    /\ cl_addresses \in ClientAddressLists
    /\ cl_data_valid \in BOOLEAN
    /\ cl_data \in (IF cl_data_valid THEN ClientMessages ELSE {NoMessage})
    /\ cl_ehlo = <<>> /\ cl_connects = 0
    /\ cl_rcpt = 0 /\ cl_written = <<>> /\ cl_read = [step |-> "none"] /\ cl_result = None

\* one await of the call: what was written, what came back, and where the
\* call goes: on when the verdict is Ok, out with the error otherwise
Awaited(step, writes, outcome, verdict, next) ==
    /\ cl_written' = IF outcome.kind = "io" THEN cl_written ELSE cl_written \o writes
    /\ cl_read' = [step |-> step, outcome |-> outcome]
    /\ cl_pc' = IF verdict = Ok THEN next ELSE "returned"
    /\ cl_result' = IF verdict = Ok THEN (IF next = "returned" THEN Some(Ok) ELSE None)
                    ELSE Some(verdict)

\* try_send_mail lines 164-170: connect, then parse the message
ClientConnect ==
    /\ cl_pc = "connect"
    /\ \E connected \in BOOLEAN :
        /\ Awaited("connect", <<>>, IF connected THEN PeerReply(0, <<>>) ELSE WriteFailed,
                   IF ~connected THEN Err("ConnectionError", "io")
                   ELSE IF ~cl_data_valid THEN Err("InvalidMessage", "parse_mail")
                   ELSE Ok,
                   "banner")
        /\ cl_connects' = cl_connects + 1
    /\ UNCHANGED <<cl_state, cl_tls, cl_addresses, cl_data_valid, cl_rcpt, cl_data, cl_ehlo>>
    /\ UNCHANGED <<sessionVars, ioVars, storeVars, sendVars, senderVars, wireVars>>

\* try_send_mail lines 173-180
ClientBanner ==
    /\ cl_pc = "banner"
    /\ \E o \in ReadOutcomes \cap CommandOutcomes :
        Awaited("banner", <<>>, o, verdict_of(o, classify_banner(o)), "ehlo")
    /\ UNCHANGED <<cl_state, cl_tls, cl_addresses, cl_data_valid, cl_rcpt, cl_data, cl_ehlo,
                   cl_connects>>
    /\ UNCHANGED <<sessionVars, ioVars, storeVars, sendVars, senderVars, wireVars>>

\* the same, but the session goes on in plaintext whatever the peer offers
AfterHelo_Plaintext(state) == "mail"

\* where try_send_mail goes after handle_helo returned a state: lines 184-207
AfterHelo(state) == IF ~cl_tls /\ state.starttls_support THEN "starttls" ELSE "mail"

\* handle_helo lines 223-239 and 252-254
ClientEhlo ==
    /\ cl_pc = "ehlo"
    /\ \E o \in PeerOutcomes :
        /\ Awaited("ehlo", <<Written("EHLO", <<Hostname>>, <<>>)>>, o,
                   verdict_of(o, classify_ehlo(o)),
                   IF o.code = 502 THEN "helo" ELSE AfterHelo(helo_state(cl_state, o)))
        /\ cl_state' = helo_state(cl_state, o)
        /\ cl_ehlo' = IF o.kind = "reply" THEN Append(cl_ehlo, o) ELSE cl_ehlo
    /\ UNCHANGED <<cl_tls, cl_addresses, cl_data_valid, cl_rcpt, cl_data, cl_connects>>
    /\ UNCHANGED <<sessionVars, ioVars, storeVars, sendVars, senderVars, wireVars>>

\* handle_helo lines 240-251
ClientHelo ==
    /\ cl_pc = "helo"
    /\ \E o \in CommandOutcomes :
        Awaited("helo", <<Written("HELO", <<Hostname>>, <<>>)>>, o,
                verdict_of(o, classify_helo(o)), AfterHelo(NoSupport))
    /\ UNCHANGED <<cl_state, cl_tls, cl_addresses, cl_data_valid, cl_rcpt, cl_data, cl_ehlo,
                   cl_connects>>
    /\ UNCHANGED <<sessionVars, ioVars, storeVars, sendVars, senderVars, wireVars>>

\* try_send_mail lines 185-195
ClientStartTls ==
    /\ cl_pc = "starttls"
    /\ \E o \in CommandOutcomes :
        Awaited("starttls", <<Written("STARTTLS", <<>>, <<>>)>>, o,
                verdict_of(o, classify_starttls(o)), "tls")
    /\ UNCHANGED <<cl_state, cl_tls, cl_addresses, cl_data_valid, cl_rcpt, cl_data, cl_ehlo,
                   cl_connects>>
    /\ UNCHANGED <<sessionVars, ioVars, storeVars, sendVars, senderVars, wireVars>>

\* try_send_mail lines 196-203: the TLS handshake on the stream of the
\* connection, then handle_helo again
ClientTlsConnect ==
    /\ cl_pc = "tls"
    /\ \E connected \in BOOLEAN :
        /\ Awaited("tls", <<>>, IF connected THEN PeerReply(0, <<>>) ELSE WriteFailed,
                   IF connected THEN Ok ELSE Err("ConnectionError", "io"), "ehlo")
        /\ cl_tls' = connected
    /\ UNCHANGED <<cl_state, cl_addresses, cl_data_valid, cl_rcpt, cl_data, cl_ehlo, cl_connects>>
    /\ UNCHANGED <<sessionVars, ioVars, storeVars, sendVars, senderVars, wireVars>>

\* handle_send_mail lines 263-277
ClientMail ==
    /\ cl_pc = "mail"
    /\ \E o \in CommandOutcomes :
        Awaited("mail", <<Written("MAIL", mail_args(cl_state), <<>>)>>, o,
                verdict_of(o, classify_mail(o)), "rcpt")
    /\ UNCHANGED <<cl_state, cl_tls, cl_addresses, cl_data_valid, cl_rcpt, cl_data, cl_ehlo,
                   cl_connects>>
    /\ UNCHANGED <<sessionVars, ioVars, storeVars, sendVars, senderVars, wireVars>>

\* handle_send_mail lines 293-294 and 326: after the last RCPT
AfterRcpt == IF cl_state.chunking_support THEN "bdat" ELSE "data"

\* handle_send_mail lines 279-291: RCPT for the next address
ClientRcpt ==
    /\ cl_pc = "rcpt"
    /\ \E o \in CommandOutcomes :
        /\ Awaited("rcpt", <<Written("RCPT", rcpt_args(cl_addresses[cl_rcpt + 1]), <<>>)>>, o,
                   verdict_of(o, classify_rcpt(o)),
                   IF cl_rcpt + 1 = Len(cl_addresses) THEN AfterRcpt ELSE "rcpt")
        /\ cl_rcpt' = IF verdict_of(o, classify_rcpt(o)) = Ok THEN cl_rcpt + 1 ELSE cl_rcpt
    /\ UNCHANGED <<cl_state, cl_tls, cl_addresses, cl_data_valid, cl_data, cl_ehlo, cl_connects>>
    /\ UNCHANGED <<sessionVars, ioVars, storeVars, sendVars, senderVars, wireVars>>

\* handle_send_mail lines 295-311: BDAT with the header block
ClientBdat ==
    /\ cl_pc = "bdat"
    /\ \E o \in CommandOutcomes :
       \E n \in write_lengths(header_block(encode_body_part(cl_state, cl_data).headers)) :
        Awaited("bdat",
                <<Written("BDAT",
                          <<ToDecimal(Len(header_block(encode_body_part(cl_state, cl_data).headers)))>>,
                          SubSeq(header_block(encode_body_part(cl_state, cl_data).headers), 1, n))>>,
                o, verdict_of(o, classify_bdat(o)), "bdat_last")
    /\ UNCHANGED <<cl_state, cl_tls, cl_addresses, cl_data_valid, cl_rcpt, cl_data, cl_ehlo,
                   cl_connects>>
    /\ UNCHANGED <<sessionVars, ioVars, storeVars, sendVars, senderVars, wireVars>>

\* handle_send_mail lines 313-324: BDAT LAST with the body
ClientBdatLast ==
    /\ cl_pc = "bdat_last"
    /\ \E o \in CommandOutcomes :
       \E n \in write_lengths(encode_body_part(cl_state, cl_data).body) :
        Awaited("bdat_last",
                <<Written("BDAT",
                          <<ToDecimal(Len(encode_body_part(cl_state, cl_data).body)), V_LAST>>,
                          SubSeq(encode_body_part(cl_state, cl_data).body, 1, n))>>,
                o, verdict_of(o, classify_bdat(o)), "quit")
    /\ UNCHANGED <<cl_state, cl_tls, cl_addresses, cl_data_valid, cl_rcpt, cl_data, cl_ehlo,
                   cl_connects>>
    /\ UNCHANGED <<sessionVars, ioVars, storeVars, sendVars, senderVars, wireVars>>

\* handle_send_mail lines 326-336: DATA
ClientData ==
    /\ cl_pc = "data"
    /\ \E o \in CommandOutcomes :
        Awaited("data", <<Written("DATA", <<>>, <<>>)>>, o, verdict_of(o, classify_data(o)), "body")
    /\ UNCHANGED <<cl_state, cl_tls, cl_addresses, cl_data_valid, cl_rcpt, cl_data, cl_ehlo,
                   cl_connects>>
    /\ UNCHANGED <<sessionVars, ioVars, storeVars, sendVars, senderVars, wireVars>>

\* handle_send_mail lines 337-346: the message and its terminator; the reply
\* is logged
ClientBody ==
    /\ cl_pc = "body"
    /\ \E o \in CommandOutcomes :
        Awaited("body",
                <<Written("", <<>>, data_stream(encode_body_part(cl_state, cl_data).headers,
                                                encode_body_part(cl_state, cl_data).body))>>,
                o, verdict_of(o, classify_ignored(o)), "quit")
    /\ UNCHANGED <<cl_state, cl_tls, cl_addresses, cl_data_valid, cl_rcpt, cl_data, cl_ehlo,
                   cl_connects>>
    /\ UNCHANGED <<sessionVars, ioVars, storeVars, sendVars, senderVars, wireVars>>

\* handle_send_mail lines 349-354: QUIT; the reply is logged; Ok(())
ClientQuit ==
    /\ cl_pc = "quit"
    /\ \E o \in CommandOutcomes :
        Awaited("quit", <<Written("QUIT", <<>>, <<>>)>>, o,
                verdict_of(o, classify_ignored(o)), "returned")
    /\ UNCHANGED <<cl_state, cl_tls, cl_addresses, cl_data_valid, cl_rcpt, cl_data, cl_ehlo,
                   cl_connects>>
    /\ UNCHANGED <<sessionVars, ioVars, storeVars, sendVars, senderVars, wireVars>>

NextClient ==
    \/ ClientConnect \/ ClientBanner \/ ClientEhlo \/ ClientHelo \/ ClientStartTls
    \/ ClientTlsConnect \/ ClientMail \/ ClientRcpt \/ ClientBdat \/ ClientBdatLast
    \/ ClientData \/ ClientBody \/ ClientQuit

SpecClient == InitClient /\ [][NextClient]_vars


(***************************************************************************)
(* Properties of send_mail (SpecSend).                                     *)
(***************************************************************************)
\* the resolution of each sample recipient, computed once
Resolution == [p \in Recipients |-> resolve(p)]
Resolved(p) == Resolution[p]

\* the group a resolved recipient belongs to: the one with its MX sequence
GroupOf(p) ==
    CHOOSE g \in DOMAIN sm_grouped : sm_grouped[g].mx_addresses = Unwrap(Resolved(p)).mx_addresses

\* the attempts made for group g, in order
AttemptsOf(g) == SelectSeq(sm_attempts, LAMBDA a : a.group = g)

\* C1: when send_mail returns, the result has one slot per input recipient,
\* in the caller's order: slot i holds InvalidAddress when recipient i did
\* not resolve, and otherwise the verdict of the group that has the MX
\* sequence of recipient i.
C1_ResultAligned ==
    sm_pc = "done" =>
        /\ Len(sm_out_list) = Len(sm_forward_paths)
        /\ Len(sm_verdicts) = Len(sm_grouped)
        /\ \A i \in DOMAIN sm_forward_paths :
            IF Resolved(sm_forward_paths[i]) = None
            THEN sm_out_list[i] = InvalidAddress
            ELSE /\ \E g \in DOMAIN sm_grouped :
                        sm_grouped[g].mx_addresses = Unwrap(Resolved(sm_forward_paths[i])).mx_addresses
                 /\ sm_out_list[i] = sm_verdicts[GroupOf(sm_forward_paths[i])]

\* a call that returned with an unresolvable first recipient followed by two
\* recipients in two groups with different verdicts
C1_Witness ==
    /\ sm_pc = "done"
    /\ Len(sm_forward_paths) = 3
    /\ Resolved(sm_forward_paths[1]) = None
    /\ Len(sm_grouped) = 2
    /\ sm_verdicts[1] # sm_verdicts[2]
    /\ sm_verdicts[1].kind # "Ok"

\* C2: a connection error only makes the loop go on to the next target.  The
\* members of a group whose last attempt was accepted after connection
\* errors on the earlier targets all get Ok; and a member holds a
\* ConnectionError only when every target of the group was tried and each
\* failed with a connection error, the error held being the last one.
C2_LaterAcceptGivesOk ==
    \A g \in DOMAIN sm_verdicts :
        \A j \in DOMAIN sm_grouped[g].addresses :
            /\ ( /\ AttemptsOf(g)[Len(AttemptsOf(g))].result.kind = "Ok"
                 /\ \A k \in 1..(Len(AttemptsOf(g)) - 1) :
                        AttemptsOf(g)[k].result.kind = "ConnectionError" )
               => sm_out_list[sm_grouped[g].addresses[j][1]] = Ok
            /\ sm_out_list[sm_grouped[g].addresses[j][1]].kind = "ConnectionError"
               => /\ Len(AttemptsOf(g)) = Len(sm_grouped[g].mx_addresses)
                  /\ \A k \in DOMAIN AttemptsOf(g) : AttemptsOf(g)[k].result.kind = "ConnectionError"
                  /\ sm_out_list[sm_grouped[g].addresses[j][1]] =
                        AttemptsOf(g)[Len(AttemptsOf(g))].result

\* C3: a step in which an attempt returns PermanentError or TransientError
\* ends the loop over the targets of that group, writes that error to the
\* slot of every member of the group and leaves every other slot as it was;
\* and no attempt for the same group follows such an attempt.
C3_ErrorStopsGroup ==
    /\ [][ ( /\ Len(sm_attempts') = Len(sm_attempts) + 1
             /\ sm_attempts'[Len(sm_attempts')].result.kind \in {"PermanentError", "TransientError"} )
           => /\ sm_group' = sm_group + 1
              /\ DOMAIN sm_out_list' = DOMAIN sm_out_list
              /\ \A i \in DOMAIN sm_out_list :
                    sm_out_list'[i] =
                        IF /\ Resolved(sm_forward_paths[i]) # None
                           /\ Unwrap(Resolved(sm_forward_paths[i])).mx_addresses
                                = sm_grouped[sm_group].mx_addresses
                        THEN sm_attempts'[Len(sm_attempts')].result
                        ELSE sm_out_list[i]
         ]_vars
    /\ [](\A k \in DOMAIN sm_attempts :
            sm_attempts[k].result.kind \in {"PermanentError", "TransientError"}
            => \A l \in DOMAIN sm_attempts : l > k => sm_attempts[l].group # sm_attempts[k].group)

\* the second group has two members and three targets, and its first target
\* has just answered with a transient error
C3_Witness ==
    /\ Len(sm_attempts) > 0
    /\ sm_attempts[Len(sm_attempts)].group = 2
    /\ sm_attempts[Len(sm_attempts)].mx = 1
    /\ sm_attempts[Len(sm_attempts)].result.kind = "TransientError"
    /\ Len(sm_grouped[2].mx_addresses) = 3
    /\ Len(sm_grouped[2].addresses) = 2
    /\ sm_out_list[sm_grouped[2].addresses[2][1]].kind = "TransientError"
    /\ sm_out_list[sm_grouped[1].addresses[1][1]].kind = "Ok"


\* the text after the last "@" of a recipient
DomainOf(p) == SliceFrom(p, LastIndexOf(p, "@"))

\* a recipient string without "@", or with a domain that is no address
\* literal and whose MX lookup fails or whose exchanges give no address
Unresolvable(p) ==
    \/ \A i \in DOMAIN p : p[i] # "@"
    \/ /\ IpAddr_from_str(DomainOf(p)) = None
       /\ \/ mx_lookup(DomainOf(p)) = None
          \/ \A k \in DOMAIN Unwrap(mx_lookup(DomainOf(p))) :
                \/ lookup_ip(Unwrap(mx_lookup(DomainOf(p)))[k].exchange) = None
                \/ Unwrap(lookup_ip(Unwrap(mx_lookup(DomainOf(p)))[k].exchange)) = <<>>
UnresolvableRecipients == { p \in Recipients : Unresolvable(p) }

\* C13: once the recipients are resolved, a recipient without "@", or whose
\* MX lookup fails, or with an empty target list, holds InvalidAddress in
\* its own slot from then on, is a member of no group, and no attempt is
\* given its index or its address, so no RCPT is sent for it; every other
\* recipient is a member of a group, and when send_mail returns its group
\* has been attempted.
C13_InvalidAddressIsolated ==
    sm_pc \in {"attempt", "done"} =>
        \A i \in DOMAIN sm_forward_paths :
            IF sm_forward_paths[i] \in UnresolvableRecipients
            THEN /\ sm_out_list[i] = InvalidAddress
                 /\ \A g \in DOMAIN sm_grouped : \A j \in DOMAIN sm_grouped[g].addresses :
                        sm_grouped[g].addresses[j][1] # i
                 /\ \A a \in DOMAIN sm_attempts : \A j \in DOMAIN sm_attempts[a].indexes :
                        /\ sm_attempts[a].indexes[j] # i
                        /\ sm_attempts[a].addresses[j].local_part \o AT \o sm_attempts[a].addresses[j].domain
                             # sm_forward_paths[i]
            ELSE /\ \E g \in DOMAIN sm_grouped : \E j \in DOMAIN sm_grouped[g].addresses :
                        sm_grouped[g].addresses[j][1] = i
                 /\ sm_pc = "done" =>
                        \E a \in DOMAIN sm_attempts : \E j \in DOMAIN sm_attempts[a].indexes :
                            sm_attempts[a].indexes[j] = i

\* a call that returned: the second of three recipients has a domain whose
\* exchanges give no address, the first failed for good at its target and
\* the third was delivered
C13_Witness ==
    /\ sm_pc = "done"
    /\ Len(sm_forward_paths) = 3
    /\ sm_forward_paths[2] = R_gv
    /\ sm_out_list[2] = InvalidAddress
    /\ sm_out_list[1].kind = "PermanentError"
    /\ sm_out_list[3] = Ok
    /\ Len(sm_attempts) = 2

\* the MX record of domain that target belongs to: its exchange, without
\* the final dot, is the target's domain and the target's address is among
\* the addresses of the exchange
RecordOf(domain, target) ==
    CHOOSE k \in DOMAIN Unwrap(mx_lookup(domain)) :
        /\ trim_end_matches_dot(Unwrap(mx_lookup(domain))[k].exchange) = target.domain
        /\ lookup_ip(Unwrap(mx_lookup(domain))[k].exchange) # None
        /\ \E i \in DOMAIN Unwrap(lookup_ip(Unwrap(mx_lookup(domain))[k].exchange)) :
                Unwrap(lookup_ip(Unwrap(mx_lookup(domain))[k].exchange))[i] = target.address
PreferenceOf(domain, target) == Unwrap(mx_lookup(domain))[RecordOf(domain, target)].preference
\* the place of the target's address in the answer for its exchange
DnsIndexOf(domain, target) ==
    CHOOSE i \in DOMAIN Unwrap(lookup_ip(Unwrap(mx_lookup(domain))[RecordOf(domain, target)].exchange)) :
        Unwrap(lookup_ip(Unwrap(mx_lookup(domain))[RecordOf(domain, target)].exchange))[i] = target.address
IsLiteral(domain) == IpAddr_from_str(domain) # None

\* the domains of the recipients that have MX targets, and for each of
\* their targets its preference, its MX record and its place in the answer
MxDomains ==
    { DomainOf(p) : p \in { q \in Recipients : Resolved(q) # None /\ ~IsLiteral(DomainOf(q)) } }
RankTable ==
    [d \in MxDomains |->
        [tg \in { Unwrap(domain_targets(d))[i] : i \in DOMAIN Unwrap(domain_targets(d)) } |->
            [preference |-> PreferenceOf(d, tg), record |-> RecordOf(d, tg),
             index |-> DnsIndexOf(d, tg)]]]
Rank(domain, target) == RankTable[domain][target]

\* C23: of two targets attempted for a group, the one attempted first does
\* not belong to an MX record with a higher preference number than the
\* other, for the domain of every member of the group.
C23_PreferenceFirst ==
    \A a \in DOMAIN sm_attempts : \A b \in DOMAIN sm_attempts :
        (a < b /\ sm_attempts[a].group = sm_attempts[b].group) =>
            \A j \in DOMAIN sm_attempts[a].addresses :
                ~IsLiteral(sm_attempts[a].addresses[j].domain) =>
                    Rank(sm_attempts[a].addresses[j].domain, sm_attempts[a].target).preference
                        <= Rank(sm_attempts[a].addresses[j].domain, sm_attempts[b].target).preference

\* the MX sequence s of a recipient of domain has IPv6 before IPv4 and,
\* inside a family, ascending preference and the order of the answer
\* inside one exchange
FamilyThenPreference(domain, s) ==
    \A i \in DOMAIN s : \A j \in DOMAIN s :
        i < j =>
            /\ ~(s[i].address.family = "V4" /\ s[j].address.family = "V6")
            /\ s[i].address.family = s[j].address.family =>
                /\ Rank(domain, s[i]).preference <= Rank(domain, s[j]).preference
                /\ Rank(domain, s[i]).record = Rank(domain, s[j]).record =>
                        Rank(domain, s[i]).index < Rank(domain, s[j]).index

\* C24: in every MX sequence that send_mail has built, all IPv6 targets
\* come before all IPv4 targets, and the targets of one family are in the
\* order of ascending preference and, inside one exchange, in the order of
\* the DNS answer.
C24_FamilyStable ==
    sm_pc \in {"attempt", "done"} =>
        \A g \in DOMAIN sm_grouped : \A j \in DOMAIN sm_grouped[g].addresses :
            ~IsLiteral(sm_grouped[g].addresses[j][2].domain) =>
                FamilyThenPreference(sm_grouped[g].addresses[j][2].domain, sm_grouped[g].mx_addresses)

\* the recipients a@x and c@w are resolved: the first has two IPv6 targets
\* of two exchanges before an IPv4 target, the second the two IPv4 targets
\* of one exchange in the order of the answer
C24_Witness ==
    /\ sm_pc = "attempt"
    /\ sm_forward_paths = <<R_ax, R_cw>>
    /\ Len(sm_grouped) = 2
    /\ Len(sm_grouped[1].mx_addresses) = 3
    /\ sm_grouped[1].mx_addresses[3].address.family = "V4"
    /\ Len(sm_grouped[2].mx_addresses) = 2
    /\ sm_grouped[2].mx_addresses[1].address.ip = "192.0.2.9"
    /\ sm_grouped[2].mx_addresses[2].address.ip = "192.0.2.8"

\* the groups where recipient index i is a member, and the number of its
\* memberships in group g
GroupsOf(i) ==
    { g \in DOMAIN sm_grouped : \E j \in DOMAIN sm_grouped[g].addresses :
                                    sm_grouped[g].addresses[j][1] = i }
Memberships(i, g) ==
    Cardinality({ j \in DOMAIN sm_grouped[g].addresses : sm_grouped[g].addresses[j][1] = i })

\* C25: once the recipients are grouped, every resolved recipient is a
\* member of exactly one group, under its index in the caller's list and
\* with its own address; every member of a group is a resolved recipient
\* whose MX sequence is the group's; and no two groups have the same MX
\* sequence.
C25_GroupsPartition ==
    sm_pc \in {"attempt", "done"} =>
        /\ \A i \in DOMAIN sm_forward_paths :
                Resolved(sm_forward_paths[i]) # None =>
                    /\ Cardinality(GroupsOf(i)) = 1
                    /\ \A g \in GroupsOf(i) : Memberships(i, g) = 1
        /\ \A g \in DOMAIN sm_grouped : \A j \in DOMAIN sm_grouped[g].addresses :
                /\ sm_grouped[g].addresses[j][1] \in DOMAIN sm_forward_paths
                /\ Resolved(sm_forward_paths[sm_grouped[g].addresses[j][1]]) # None
                /\ sm_grouped[g].addresses[j][2].local_part \o AT \o sm_grouped[g].addresses[j][2].domain
                        = sm_forward_paths[sm_grouped[g].addresses[j][1]]
                /\ sm_grouped[g].mx_addresses
                        = Unwrap(Resolved(sm_forward_paths[sm_grouped[g].addresses[j][1]])).mx_addresses
        /\ \A g \in DOMAIN sm_grouped : \A h \in DOMAIN sm_grouped :
                g # h => sm_grouped[g].mx_addresses # sm_grouped[h].mx_addresses

\* a@x, c@w and b@y are grouped: x and y have the same MX sequence, so the
\* first and the third recipient share the first group
C25_Witness ==
    /\ sm_pc = "attempt"
    /\ sm_forward_paths = <<R_ax, R_cw, R_by>>
    /\ Len(sm_grouped) = 2
    /\ indexes(sm_grouped[1]) = <<1, 3>>
    /\ indexes(sm_grouped[2]) = <<2>>

\* C26: for a recipient whose domain D is an address literal the resolver
\* is asked nothing about D, the recipient's group has the single target
\* (D, D), and every attempt for the group goes to that target.
C26_LiteralSingleTarget ==
    sm_pc \in {"attempt", "done"} =>
        \A i \in DOMAIN sm_forward_paths :
            (LastIndexOf(sm_forward_paths[i], "@") # 0 /\ IsLiteral(DomainOf(sm_forward_paths[i]))) =>
                /\ \A q \in DOMAIN sm_queries : sm_queries[q].name # DomainOf(sm_forward_paths[i])
                /\ \A g \in GroupsOf(i) :
                    /\ sm_grouped[g].mx_addresses =
                            <<MXAddress(Unwrap(IpAddr_from_str(DomainOf(sm_forward_paths[i]))),
                                        DomainOf(sm_forward_paths[i]))>>
                    /\ \A a \in DOMAIN sm_attempts :
                            sm_attempts[a].group = g =>
                                sm_attempts[a].target.domain = DomainOf(sm_forward_paths[i])
                /\ GroupsOf(i) # {}


\* C32: after an attempt of a group that gave InvalidMessage no other
\* target of the group is tried, and InvalidMessage is what every recipient
\* of the group gets.
C32_InvalidMessageStops ==
    \A i \in DOMAIN sm_attempts :
        sm_attempts[i].result.kind = "InvalidMessage" =>
            /\ \A j \in DOMAIN sm_attempts :
                    j > i => sm_attempts[j].group # sm_attempts[i].group
            /\ Len(sm_verdicts) >= sm_attempts[i].group =>
                    /\ sm_verdicts[sm_attempts[i].group].kind = "InvalidMessage"
                    /\ \A k \in DOMAIN sm_attempts[i].indexes :
                            sm_out_list[sm_attempts[i].indexes[k]].kind = "InvalidMessage"

(***************************************************************************)
(* Properties of the sender loop (SpecSender).                             *)
(***************************************************************************)
\* C4: every outbound queue item in state Queued eventually is in state
\* Sent or Failed.
C4_QueuedLeavesQueued ==
    \A k \in 1..(2 * MaxQueued) :
        (Len(outbound_queue) >= k /\ outbound_queue[k].state = "Queued")
        ~> (Len(outbound_queue) >= k /\ outbound_queue[k].state \in {"Sent", "Failed"})


\* the ids of the items of the messages still to send in this cycle
IdsIn(forwards) ==
    UNION { { forwards[k].items[i].id : i \in DOMAIN forwards[k].items } : k \in DOMAIN forwards }

\* C38: at every moment, between any two inserts of the server sessions
\* and whatever the sender loop does, each outbound_queue row refers to an
\* outbound_message row that is in the store, each child id of a
\* mail_subpart row is the id of a mail_subpart row that is in the store,
\* and each message the sender loaded items for is in the store.
C38_ReferencesResolve ==
    /\ \A i \in DOMAIN outbound_queue :
            \E m \in DOMAIN outbound_message : outbound_message[m].id = outbound_queue[i].message_id
    /\ \A p \in DOMAIN mail_subpart : \A c \in DOMAIN mail_subpart[p].subparts :
            \E q \in DOMAIN mail_subpart : mail_subpart[q].id = mail_subpart[p].subparts[c]
    /\ \A k \in DOMAIN snd_forwards :
            \E m \in DOMAIN outbound_message : outbound_message[m].id = snd_forwards[k].id

\* two sessions are between two inserts, one of them after the row of a
\* part with a child, and the sender loop has loaded a Queued item
C38_Witness ==
    /\ \A s \in Sessions : srv_pending[s] # None /\ Unwrap(srv_pending[s]) # <<>>
    /\ \E p \in DOMAIN mail_subpart : mail_subpart[p].subparts # <<>>
    /\ outbound_queue # <<>>
    /\ snd_pc = "send"
    /\ snd_forwards # <<>>

\* C39: send_mail is called for an item at most once: the items of a
\* message handed to send_mail were never handed to it before.
C39_HandedOnce ==
    [][ (snd_pc = "send" /\ snd_forwards' # snd_forwards) =>
            (IdsIn(snd_forwards) \ IdsIn(snd_forwards')) \cap snd_attempted = {}
      ]_vars

(***************************************************************************)
(* Properties of the server session (Spec).                                *)
(***************************************************************************)
\* the final reply of the step
LastReply(replies) == replies[Len(replies)]

\* C5: MAIL is answered 250 only with client_identity set and no reverse
\* path in flight, and then a reverse path is set; RCPT is answered 250 only
\* with client_identity and reverse_path set, and then one address is
\* appended to forward_paths; in every other state the answer is 503; a MAIL
\* or RCPT answered 503 or 501 changes none of client_identity,
\* reverse_path, forward_paths and binary_data.
C5_MailRcptSequencing ==
    [][ /\ cmd_verb' = W_MAIL =>
            /\ sent'[1].code = 250 =>
                    client_identity # None /\ reverse_path = None /\ reverse_path' # None
            /\ ~(client_identity # None /\ reverse_path = None) => sent'[1].code = 503
        /\ cmd_verb' = W_RCPT =>
            /\ sent'[1].code = 250 =>
                    /\ client_identity # None /\ reverse_path # None
                    /\ Len(forward_paths') = Len(forward_paths) + 1
                    /\ SubSeq(forward_paths', 1, Len(forward_paths)) = forward_paths
            /\ ~(client_identity # None /\ reverse_path # None) => sent'[1].code = 503
        /\ (cmd_verb' \in {W_MAIL, W_RCPT} /\ sent'[1].code \in {501, 503}) =>
            UNCHANGED <<client_identity, reverse_path, forward_paths, binary_data>>
      ]_vars

\* a MAIL refused with 503 in the middle of a transaction, which is kept
C5_Witness ==
    /\ cmd_verb = W_MAIL
    /\ sent[1].code = 503
    /\ client_identity # None
    /\ reverse_path # None
    /\ forward_paths # <<>>

\* C6: DATA and BDAT read message lines, answer 354 or run finalization
\* only with client_identity and reverse_path set and a forward path
\* present; in any other state the only reply is 503, nothing is read,
\* nothing is persisted and the session state is unchanged; DATA with an
\* argument, in a state where DATA is in sequence, is answered 501 alone.
C6_DataBdatSequencing ==
    [][ cmd_verb' \in {W_DATA, W_BDAT} =>
            IF client_identity # None /\ reverse_path # None /\ forward_paths # <<>>
            THEN (cmd_verb' = W_DATA /\ cmd_args' # <<>>) =>
                    /\ Len(sent') = 1 /\ sent'[1].code = 501
                    /\ consumed' = 0 /\ ~finalized'
            ELSE /\ Len(sent') = 1 /\ sent'[1].code = 503
                 /\ consumed' = 0 /\ ~finalized'
                 /\ UNCHANGED <<sessionVars, storeVars>>
      ]_vars

\* a BDAT refused with 503 because no recipient was given yet
C6_Witness ==
    /\ cmd_verb = W_BDAT
    /\ Len(cmd_args) = 2
    /\ sent[1].code = 503
    /\ client_identity # None
    /\ reverse_path # None
    /\ forward_paths = <<>>

\* the address of a RCPT argument: the text after "TO:", without the angle
\* brackets when it has them
RcptAddress(arg) ==
    IF Len(arg) >= 5 /\ arg[4] = "<" /\ arg[Len(arg)] = ">"
    THEN SubSeq(arg, 5, Len(arg) - 1)
    ELSE SliceFrom(arg, 3)

\* the local part of an address: the text before the first "@"
LocalPart(a) == IF FirstIndexOf(a, "@") = 0 THEN a ELSE SubSeq(a, 1, FirstIndexOf(a, "@") - 1)

\* C7: a RCPT given with identity and reverse path set whose address has the
\* local part postmaster in any letter case, alone or followed by @domain,
\* with or without angle brackets, is answered 551 and forward_paths is
\* unchanged.
C7_PostmasterRefused ==
    [][ ( /\ cmd_verb' = W_RCPT
          /\ client_identity # None /\ reverse_path # None
          /\ cmd_args' # <<>>
          /\ starts_with(Pop(cmd_args'), W_TO)
          /\ to_lowercase(LocalPart(RcptAddress(Pop(cmd_args')))) = W_postmaster )
        => (sent'[1].code = 551 /\ forward_paths' = forward_paths)
      ]_vars

\* C8: after RSET, after HELO or EHLO answered 250, after DATA whose final
\* reply is 250 and after a finalizing BDAT answered 250, reverse_path is
\* unset and forward_paths is empty; after RSET binary_data is empty too.
C8_TransactionCleared ==
    /\ ( \/ cmd_verb = W_RSET
         \/ (cmd_verb \in {W_HELO, W_EHLO} /\ sent[1].code = 250)
         \/ (cmd_verb = W_DATA /\ finalized /\ LastReply(sent).code = 250)
         \/ (cmd_verb = W_BDAT /\ finalized /\ LastReply(sent).code = 250) )
       => (reverse_path = None /\ forward_paths = <<>>)
    /\ cmd_verb = W_RSET => binary_data = <<>>

\* a DATA transaction for two recipients has just been answered 250
C8_Witness ==
    /\ cmd_verb = W_DATA
    /\ finalized
    /\ LastReply(sent).code = 250
    /\ Len(inbound_queue) = 2
    /\ reverse_path = None
    /\ forward_paths = <<>>

\* C9: when finalization is given data that violates the validation rules,
\* the final reply is 550 with the diagnostic as its second line and the
\* step inserts no row into any of the four tables.
C9_InvalidMailNotPersisted ==
    [][ (finalized' /\ ~parse_and_validate_parsed_mail(final_data').ok) =>
            /\ LastReply(sent').code = 550
            /\ Len(LastReply(sent').lines) = 2
            /\ LastReply(sent').lines[2] = parse_and_validate_parsed_mail(final_data').err
            /\ UNCHANGED <<mail_subpart, inbound_queue, outbound_message, outbound_queue>>
      ]_vars

\* a message without a Date header for two recipients has just been refused
C9_Witness ==
    /\ finalized
    /\ cmd_verb = W_DATA
    /\ ~parse_and_validate_parsed_mail(final_data).ok
    /\ LastReply(sent).code = 550
    /\ Len(forward_paths) = 2
    /\ inbound_queue = <<>>

\* the ids of the rows of a table from row n + 1 on
NewIds(table, n) == { table[k].id : k \in (n + 1)..Len(table) }

\* the step persisted everything for every entry of paths, in order: row k
\* of the new inbound_queue rows is for paths[k] and points to a new part
\* row; new message k is the confirmation for paths[k] and has one Queued
\* item per confirmation recipient; the new ids are fresh
PersistedAll(paths, data) ==
    /\ Len(inbound_queue') = Len(inbound_queue) + Len(paths)
    /\ Len(outbound_message') = Len(outbound_message) + Len(paths)
    /\ \A k \in DOMAIN paths :
        /\ inbound_queue'[Len(inbound_queue) + k].rcpt_to = paths[k]
        /\ inbound_queue'[Len(inbound_queue) + k].contents \in NewIds(mail_subpart', Len(mail_subpart))
        /\ outbound_message'[Len(outbound_message) + k].rcpt_to = paths[k]
        /\ Cardinality({ i \in (Len(outbound_queue) + 1)..Len(outbound_queue') :
                            /\ outbound_queue'[i].message_id = outbound_message'[Len(outbound_message) + k].id
                            /\ outbound_queue'[i].state = "Queued" })
           = Len(confirmation_recipients(parse_and_validate_parsed_mail(data)))
    /\ \A id \in NewIds(mail_subpart', Len(mail_subpart)) \cup NewIds(inbound_queue', Len(inbound_queue))
              \cup NewIds(outbound_message', Len(outbound_message))
              \cup NewIds(outbound_queue', Len(outbound_queue)) : id > next_id
    /\ Cardinality(NewIds(mail_subpart', Len(mail_subpart)) \cup NewIds(inbound_queue', Len(inbound_queue))
              \cup NewIds(outbound_message', Len(outbound_message))
              \cup NewIds(outbound_queue', Len(outbound_queue)))
       = (Len(mail_subpart') - Len(mail_subpart)) + (Len(inbound_queue') - Len(inbound_queue))
         + (Len(outbound_message') - Len(outbound_message)) + (Len(outbound_queue') - Len(outbound_queue))

\* C10: the final reply of a finalization is 250 exactly when the step
\* persisted, for every entry of forward_paths in order, a part tree with
\* fresh ids, an inbound_queue record for that path and its confirmation
\* mail; when a store operation failed the final reply is 451.
C10_ReplyMatchesPersistence ==
    [][ finalized' =>
            /\ (LastReply(sent').code = 250) <=>
                    (parse_and_validate_parsed_mail(final_data').ok
                        /\ PersistedAll(forward_paths, final_data'))
            /\ db_failed' => LastReply(sent').code = 451
      ]_vars

\* the store failed while the second of two recipients was persisted
C10_Witness ==
    /\ finalized
    /\ db_failed
    /\ LastReply(sent).code = 451
    /\ Len(forward_paths) = 2
    /\ Len(inbound_queue) = 1

\* the addresses of the first header line of data with a key, groups flattened
HeaderAddresses(data, key) == Flatten(get_all_headers(parse_mail(data).headers, key)[1].val)

\* the items of a queue that refer to a message
ItemsOf(queue, message_id) == SelectSeq(queue, LAMBDA item : item.message_id = message_id)

\* C11: a finalization answered 250 has inserted, for each entry of
\* forward_paths in order, one outbound_message, and after it one
\* outbound_queue item per confirmation recipient and no other item; the
\* confirmation recipients are the addresses of the Reply-To header of the
\* message when it has one and those of its From header otherwise, groups
\* flattened; and at all times every item is Queued and refers to a message
\* inserted before it.
C11_ConfirmationQueued ==
    /\ [][ (finalized' /\ LastReply(sent').code = 250) =>
            /\ Len(outbound_message') = Len(outbound_message) + Len(forward_paths)
            /\ \A k \in DOMAIN forward_paths :
                /\ outbound_message'[Len(outbound_message) + k].rcpt_to = forward_paths[k]
                /\ [i \in DOMAIN ItemsOf(outbound_queue', outbound_message'[Len(outbound_message) + k].id) |->
                        ItemsOf(outbound_queue', outbound_message'[Len(outbound_message) + k].id)[i].forward_path]
                   = IF get_all_headers(parse_mail(final_data').headers, "Reply-To") # <<>>
                     THEN HeaderAddresses(final_data', "Reply-To")
                     ELSE HeaderAddresses(final_data', "From")
            /\ \A i \in (Len(outbound_queue) + 1)..Len(outbound_queue') :
                \E k \in DOMAIN forward_paths :
                    outbound_queue'[i].message_id = outbound_message'[Len(outbound_message) + k].id
         ]_vars
    /\ [](\A i \in DOMAIN outbound_queue :
            /\ outbound_queue[i].state = "Queued"
            /\ outbound_queue[i].id > outbound_queue[i].message_id
            /\ \E m \in DOMAIN outbound_message : outbound_message[m].id = outbound_queue[i].message_id)

\* a message with a Reply-To header naming one address and a group of one
\* has been accepted for two recipients
C11_Witness ==
    /\ finalized
    /\ LastReply(sent).code = 250
    /\ get_all_headers(parse_mail(final_data).headers, "Reply-To") # <<>>
    /\ Len(outbound_message) = 2
    /\ Len(outbound_queue) = 4
    /\ outbound_queue[1].forward_path = A_r1
    /\ outbound_queue[2].forward_path = A_r2


\* C17: a command line without a token is answered with a 500 reply and
\* nothing else; the session stays open and its state is unchanged.
C17_EmptyLineRefused ==
    [][ (read_outcome' = "line" /\ cmd_verb' = <<>>) =>
            /\ Len(sent') = 1 /\ sent'[1].code = 500
            /\ ~closed'
            /\ UNCHANGED <<client_identity, protocol, reverse_path, forward_paths, binary_data>>
      ]_vars

\* C31: a BDAT that finalizes gives process_email the buffer followed by
\* the chunk just read, a BDAT that does not finalize appends its chunk to
\* the buffer and is answered 250, and the buffer is empty whenever no mail
\* transaction is open; so the finalized message is the chunks of the
\* current transaction, in order, and nothing else.
C31_BdatConcatenates ==
    /\ [](reverse_path = None => binary_data = <<>>)
    /\ [][ cmd_verb' = W_BDAT =>
            /\ finalized' =>
                    \E chunk \in Chunks :
                        Len(chunk) = consumed' /\ final_data' = binary_data \o chunk
            /\ (~finalized' /\ ~closed' /\ sent'[1].code \notin {501, 503}) =>
                    /\ sent' = <<Response(250, "Nom nom nom more please!")>>
                    /\ \E chunk \in Chunks :
                        Len(chunk) = consumed' /\ binary_data' = binary_data \o chunk
         ]_vars

\* C33: whenever reverse_path is unset forward_paths is empty, and whenever
\* reverse_path is set client_identity is set.
C33_PathsFollowReversePath ==
    /\ reverse_path = None => forward_paths = <<>>
    /\ reverse_path # None => client_identity # None

\* a greeting has just ended a transaction that had a recipient and a
\* buffered chunk
C33_Witness ==
    /\ cmd_verb \in {W_HELO, W_EHLO}
    /\ sent[1].code = 250
    /\ binary_data # <<>>
    /\ reverse_path = None
    /\ forward_paths = <<>>

\* C34: after a finalization, through DATA or through BDAT, accepted or
\* rejected, reverse_path is unset, forward_paths is empty and binary_data
\* is empty, and a MAIL that follows it is not answered 503.
C34_FinalizationClears ==
    /\ [](finalized => (reverse_path = None /\ forward_paths = <<>> /\ binary_data = <<>>))
    /\ [][(finalized /\ cmd_verb' = W_MAIL) => sent'[1].code # 503]_vars

\* C35: a finalization whose final reply is not 250 has inserted no row
\* into any of the four tables.
C35_RejectedPersistsNothing ==
    [][ (finalized' /\ LastReply(sent').code # 250) =>
            UNCHANGED <<mail_subpart, inbound_queue, outbound_message, outbound_queue>>
      ]_vars

\* the size a BDAT command announces
AnnouncedSize(args) == parse_usize(Pop(args))

ExaminedSteps == {"banner", "ehlo", "helo", "starttls", "mail", "rcpt", "data", "bdat", "bdat_last"}

\* C12: at every step where the client examines a reply code, a 4xx reply
\* makes the attempt return TransientError and a 5xx reply makes it return
\* PermanentError (the 502 answer to EHLO, after which HELO is tried, aside).
C12_ReplyClassFollowed ==
    [][ ( /\ cl_read'.step \in ExaminedSteps
          /\ cl_read'.outcome.kind = "reply"
          /\ ~(cl_read'.step = "ehlo" /\ cl_read'.outcome.code = 502) )
        => /\ cl_read'.outcome.code \in 400..499 =>
                (cl_result' # None /\ Unwrap(cl_result').kind = "TransientError")
           /\ cl_read'.outcome.code \in 500..599 =>
                (cl_result' # None /\ Unwrap(cl_result').kind = "PermanentError")
      ]_vars

\* C14: once the message has been transmitted and acknowledged, whatever
\* happens at the QUIT exchange, try_send_mail returns Ok.
C14_QuitNeverChangesOutcome ==
    [][ cl_pc = "quit" => cl_result' = Some(Ok) ]_vars


\* the verbs written so far, and the writes with a given verb
Verbs == [i \in DOMAIN cl_written |-> cl_written[i].verb]
WritesOf(verb) == SelectSeq(cl_written, LAMBDA w : w.verb = verb)
\* s is a run of consecutive octets of t
IsInfix(s, t) == \E i \in 0..(Len(t) - Len(s)) : SubSeq(t, i + 1, i + Len(s)) = s
\* the parts of a message: the root, then its subparts
PartsOf(msg) == <<msg>> \o msg.subparts
\* the writes that carry the body: the message after DATA, or BDAT LAST
BodyWrites == SelectSeq(cl_written, LAMBDA w : w.verb = "" \/ (w.verb = "BDAT" /\ Len(w.args) = 2))
\* the writes that carry the headers: the message after DATA, or the first BDAT
HeaderWrites == SelectSeq(cl_written, LAMBDA w : w.verb = "" \/ (w.verb = "BDAT" /\ Len(w.args) = 1))
\* the rule for one part: quoted-printable for an 8bit part when the peer
\* has no 8BITMIME and for a binary part when it has no BINARYMIME
MustRequote(state, part) ==
    \/ get_body_encoded(part) = "EightBit" /\ ~state.utf8_support
    \/ get_body_encoded(part) = "Binary" /\ ~state.binary_support
RuleBody(state, part) ==
    IF MustRequote(state, part) THEN quoted_printable_encode(part.raw) ELSE part.raw

\* C22: in a message that has been written (one shorter than the write
\* buffer), every part, the root and the subparts, is there as the rule
\* gives it: unchanged, or as quoted-printable when it is 8bit and the peer
\* has no 8BITMIME or binary and the peer has no BINARYMIME; an 8bit part
\* is not there unchanged when the peer has no 8BITMIME; and the headers
\* of a re-encoded root name quoted-printable and not the old encoding.
C22_EveryPartEncoded ==
    Len(cl_data.raw) < BufCapacity =>
        /\ \A w \in DOMAIN BodyWrites : \A k \in DOMAIN PartsOf(cl_data) :
            /\ IsInfix(RuleBody(cl_state, PartsOf(cl_data)[k]), BodyWrites[w].octets)
            /\ (get_body_encoded(PartsOf(cl_data)[k]) = "EightBit" /\ ~cl_state.utf8_support)
                    => ~IsInfix(PartsOf(cl_data)[k].raw, BodyWrites[w].octets)
        /\ \A w \in DOMAIN HeaderWrites :
            MustRequote(cl_state, cl_data) =>
                /\ IsInfix(header_line(Header(K_CTE, V_qp)), HeaderWrites[w].octets)
                /\ ~IsInfix(K_CTE \o <<":", " ">> \o Unwrap(get_first_value(cl_data.headers, K_CTE)),
                            HeaderWrites[w].octets)

\* the place of a verb in a session
Phase(verb) ==
    CASE verb \in {"EHLO", "HELO", "STARTTLS"} -> 1
      [] verb = "MAIL" -> 2
      [] verb = "RCPT" -> 3
      [] verb \in {"DATA", "BDAT", ""} -> 4
      [] verb = "QUIT" -> 5
\* the codes that let the call go on after each await
AcceptedAt(step) ==
    CASE step = "banner" -> {220}
      [] step = "ehlo" -> {250, 502}
      [] step = "helo" -> {250}
      [] step = "starttls" -> {220}
      [] step = "mail" -> {250}
      [] step = "rcpt" -> {250, 251}
      [] step = "data" -> {354}
      [] step \in {"bdat", "bdat_last"} -> {250}
      [] OTHER -> {}
\* the await before a write went well: the reply had an accepted code, or
\* the TLS handshake was made, or the reply to the end of the data was read
PreviousAccepted ==
    \/ cl_read.step = "tls" /\ cl_read.outcome.kind = "reply"
    \/ cl_read.step = "body" /\ cl_read.outcome.kind = "reply"
    \/ /\ cl_read.step \in {"banner", "ehlo", "helo", "starttls", "mail", "rcpt", "data",
                            "bdat", "bdat_last"}
       /\ cl_read.outcome.kind = "reply"
       /\ cl_read.outcome.code \in AcceptedAt(cl_read.step)
\* the commands written are in the order of a session
SessionOrder ==
    /\ cl_connects <= 1
    /\ \A i \in DOMAIN cl_written : \A j \in DOMAIN cl_written :
            i < j => /\ Phase(Verbs[i]) <= Phase(Verbs[j])
                     /\ Verbs[i] # "QUIT"
    /\ cl_written # <<>> => Verbs[1] = "EHLO"
    /\ \A i \in DOMAIN cl_written :
            /\ Verbs[i] \in {"HELO", "STARTTLS"} => (i > 1 /\ Verbs[i - 1] = "EHLO")
            /\ (Verbs[i] = "EHLO" /\ i > 1) => Verbs[i - 1] = "STARTTLS"
    /\ Len(WritesOf("STARTTLS")) <= 1
    /\ Len(WritesOf("MAIL")) <= 1
    /\ Len(WritesOf("RCPT")) <= Len(cl_addresses)
    /\ \A k \in DOMAIN WritesOf("RCPT") : WritesOf("RCPT")[k].args = rcpt_args(cl_addresses[k])
    /\ (\E i \in DOMAIN cl_written : Phase(Verbs[i]) = 4) =>
            /\ Len(WritesOf("MAIL")) = 1
            /\ Len(WritesOf("RCPT")) = Len(cl_addresses)
            /\ cl_rcpt = Len(cl_addresses)

\* C27: the commands of a delivery attempt are written in the order EHLO
\* (HELO after it, or STARTTLS and EHLO again), one MAIL, one RCPT per
\* address of the group in the group's order, DATA or BDAT, QUIT, on one
\* connection; message octets are written only when MAIL and every RCPT
\* were accepted; and a write is made only when the await before it read a
\* reply with an accepted code (220 for the banner).
C27_SessionOrder ==
    /\ [](SessionOrder)
    /\ [][cl_written' # cl_written => PreviousAccepted]_vars

\* an attempt for two addresses that returned Ok after STARTTLS and DATA
C27_Witness ==
    /\ cl_pc = "returned" /\ cl_result = Some(Ok)
    /\ cl_tls
    /\ Verbs = <<"EHLO", "STARTTLS", "EHLO", "MAIL", "RCPT", "RCPT", "DATA", "", "QUIT">>

\* what the latest reply to EHLO lists
LatestEhlo == cl_ehlo[Len(cl_ehlo)]
Listed(word) ==
    /\ cl_ehlo # <<>>
    /\ LatestEhlo.code = 250
    /\ \E i \in 2..Len(LatestEhlo.lines) : LatestEhlo.lines[i] = word

\* C28: once the greeting is over, the flags of the session are those the
\* latest EHLO reply lists, whatever an earlier EHLO reply listed: MAIL has
\* BODY=8BITMIME exactly when the latest reply lists 8BITMIME, and BDAT is
\* used exactly when it lists CHUNKING.
C28_LatestEhloRules ==
    /\ cl_pc \in {"mail", "rcpt", "data", "bdat", "bdat_last", "body", "quit"} =>
            /\ cl_state.utf8_support = Listed("8BITMIME")
            /\ cl_state.binary_support = Listed("BINARYMIME")
            /\ cl_state.chunking_support = Listed("CHUNKING")
    /\ \A i \in DOMAIN cl_written :
            /\ Verbs[i] = "MAIL" =>
                    ((\E a \in DOMAIN cl_written[i].args : cl_written[i].args[a] = V_BODY8)
                        = Listed("8BITMIME"))
            /\ Verbs[i] = "BDAT" => Listed("CHUNKING")
            /\ Verbs[i] = "DATA" => ~Listed("CHUNKING")

\* the EHLO before STARTTLS listed CHUNKING, the EHLO after it lists
\* 8BITMIME alone: MAIL went out with BODY=8BITMIME and DATA was used
C28_Witness ==
    /\ cl_tls
    /\ Len(cl_ehlo) = 2
    /\ cl_ehlo[1].lines = <<"x", "STARTTLS", "CHUNKING">>
    /\ cl_ehlo[2].lines = <<"x", "8BITMIME">>
    /\ Len(WritesOf("MAIL")) = 1
    /\ WritesOf("MAIL")[1].args = <<W_FROM \o LT \o ReversePath \o GT, V_BODY8>>
    /\ Len(WritesOf("DATA")) = 1

\* C29: after 502 to EHLO the client sends HELO on the connection it has;
\* after 250 to HELO it goes on to MAIL with every flag false; after any
\* other answer to HELO the attempt ends with an error; and after a HELO
\* there is no STARTTLS, no EHLO, no BDAT and no BODY=8BITMIME.
C29_HeloFallback ==
    /\ [][ /\ (cl_read'.step = "ehlo" /\ cl_read'.outcome.kind = "reply"
                    /\ cl_read'.outcome.code = 502)
              => (cl_pc' = "helo" /\ cl_result' = None /\ cl_connects' = cl_connects)
           /\ cl_pc = "helo" =>
                /\ cl_connects' = cl_connects
                /\ cl_read'.outcome.kind # "io" =>
                        cl_written' = Append(cl_written, Written("HELO", <<Hostname>>, <<>>))
                /\ IF cl_read'.outcome.kind = "reply" /\ cl_read'.outcome.code = 250
                   THEN cl_pc' = "mail" /\ cl_state' = NoSupport /\ cl_result' = None
                   ELSE /\ cl_pc' = "returned"
                        /\ cl_result' # None
                        /\ Unwrap(cl_result').kind \in {"PermanentError", "TransientError",
                                                        "ConnectionError"}
         ]_vars
    /\ [](\A i \in DOMAIN cl_written : \A j \in DOMAIN cl_written :
            (Verbs[i] = "HELO" /\ i < j) =>
                /\ Verbs[j] \notin {"STARTTLS", "EHLO", "BDAT"}
                /\ Verbs[j] = "MAIL" => cl_written[j].args = <<W_FROM \o LT \o ReversePath \o GT>>)
    /\ []((cl_pc = "returned" /\ cl_read.step = "helo") => Len(WritesOf("MAIL")) = 0)

\* an attempt that returned Ok after EHLO was answered 502 and HELO 250
C29_Witness ==
    /\ cl_pc = "returned" /\ cl_result = Some(Ok)
    /\ Len(cl_ehlo) = 1 /\ cl_ehlo[1].code = 502
    /\ Verbs = <<"EHLO", "HELO", "MAIL", "RCPT", "DATA", "", "QUIT">>

\* the writes of BDAT
Bdats == WritesOf("BDAT")

\* C30: with chunking_support the message goes out in two BDAT commands
\* and without DATA: the first announces the length of the header block
\* with its blank line and is followed by exactly that block, the second
\* is written after 250 to the first, has LAST, and announces the length of
\* the body octets that follow it; without chunking_support DATA is sent
\* and message octets are written only after 354.
C30_BdatLengths ==
    /\ []( /\ Bdats # <<>> =>
                /\ cl_state.chunking_support
                /\ Len(WritesOf("DATA")) = 0 /\ Len(WritesOf("")) = 0
                /\ Len(Bdats) <= 2
                /\ Bdats[1].args = <<ToDecimal(Len(Bdats[1].octets))>>
                /\ Bdats[1].octets = header_block(encode_body_part(cl_state, cl_data).headers)
                /\ Len(Bdats) = 2 =>
                        Bdats[2].args = <<ToDecimal(Len(Bdats[2].octets)), V_LAST>>
           /\ (cl_pc = "returned" /\ cl_result = Some(Ok) /\ cl_state.chunking_support)
                    => Len(Bdats) = 2
           /\ (WritesOf("DATA") # <<>> \/ WritesOf("") # <<>>) => ~cl_state.chunking_support )
    /\ [][ /\ (Len(Bdats') = 2 /\ Len(Bdats) = 1) =>
                (cl_read.step = "bdat" /\ cl_read.outcome.kind = "reply"
                    /\ cl_read.outcome.code = 250)
           /\ (WritesOf("")' # <<>> /\ WritesOf("") = <<>>) =>
                (cl_read.step = "data" /\ cl_read.outcome.kind = "reply"
                    /\ cl_read.outcome.code = 354)
         ]_vars


\* C36: try_send_mail goes on to QUIT, and then to Ok, only when the reply
\* to the end of the message (after the DATA terminator, or to BDAT LAST)
\* is a reply with a 2xx code; after any other reply it returns an error.
C36_OkOnlyWhenAccepted ==
    [][ /\ (cl_pc \in {"body", "bdat_last"} /\ cl_pc' = "quit") =>
                /\ cl_read'.outcome.kind = "reply"
                /\ cl_read'.outcome.code \in 200..299
        /\ (cl_result' = Some(Ok) /\ cl_result # Some(Ok)) => cl_pc = "quit"
      ]_vars

\* the envelope and the message: MAIL, RCPT, DATA, BDAT and the octets
EnvelopeVerbs == {"MAIL", "RCPT", "DATA", "BDAT", ""}
\* the reply to the first EHLO, on the plaintext stream, lists STARTTLS
StartTlsOffered ==
    /\ cl_ehlo # <<>>
    /\ cl_ehlo[1].code = 250
    /\ \E i \in 2..Len(cl_ehlo[1].lines) : cl_ehlo[1].lines[i] = "STARTTLS"

\* C37: when the reply to the plaintext EHLO lists STARTTLS, MAIL, RCPT,
\* DATA, BDAT and message octets are written only on the TLS stream; and
\* when STARTTLS is not answered 220 or the TLS handshake fails, the call
\* has returned an error and has written none of them.
C37_NoDowngrade ==
    /\ [][ ( /\ Len(cl_written') > Len(cl_written)
             /\ cl_written'[Len(cl_written')].verb \in EnvelopeVerbs
             /\ StartTlsOffered ) => cl_tls
         ]_vars
    /\ []( ( \/ (cl_read.step = "starttls"
                    /\ ~(cl_read.outcome.kind = "reply" /\ cl_read.outcome.code = 220))
             \/ (cl_read.step = "tls" /\ cl_read.outcome.kind # "reply") )
           => /\ cl_pc = "returned"
              /\ cl_result # None /\ cl_result # Some(Ok)
              /\ ~cl_tls
              /\ \A i \in DOMAIN cl_written : cl_written[i].verb \notin EnvelopeVerbs )

\* STARTTLS was answered 220 and the handshake failed: the call returned
\* ConnectionError after EHLO and STARTTLS alone
C37_Witness ==
    /\ cl_read.step = "tls"
    /\ cl_read.outcome.kind = "io"
    /\ StartTlsOffered
    /\ cl_pc = "returned"
    /\ cl_result = Some(Err("ConnectionError", "io"))
    /\ Verbs = <<"EHLO", "STARTTLS">>

(***************************************************************************)
(* Properties of the wire formats (SpecWire).                              *)
(***************************************************************************)
\* a body that ends in a CR which no LF follows
EndsInPartialCRLF(body) == body # <<>> /\ body[Len(body)] = "\r"

\* C15: for every body that does not end in a partial CRLF, the server's
\* DATA loop, reading what the client wrote for the body and the
\* terminator, stops at the client's terminator, neither at the end of the
\* stream nor with octets left unread, and has assembled the body (the
\* CRLF that opens the terminator counted with it or not).
C15_DataRoundTrip ==
    (wr_pc = "done" /\ wr_call.fn = "data" /\ ~EndsInPartialCRLF(wr_call.octets)) =>
        /\ ~wr_ret.eof
        /\ wr_ret.rest = <<>>
        /\ wr_ret.data \in {wr_call.octets, wr_call.octets \o CRLF}

\* the uppercased verb, then the arguments in the order received, joined by
\* single spaces, then CRLF
canonicalise(line) ==
    JoinSp(<<to_uppercase(Head(split_ascii_whitespace(line)))>>
           \o Tail(split_ascii_whitespace(line))) \o CRLF

\* C16: the parsed command has the first token uppercased as its verb and
\* the other tokens, in the order received, as its args; and emitting it
\* gives canonicalise of the line.
C16_CommandRoundTrip ==
    (wr_pc = "done" /\ wr_call.fn = "command" /\ split_ascii_whitespace(wr_call.octets) # <<>>) =>
        /\ wr_ret.verb = to_uppercase(Head(split_ascii_whitespace(wr_call.octets)))
        /\ wr_ret.args = Tail(split_ascii_whitespace(wr_call.octets))
        /\ wr_wire = canonicalise(wr_call.octets)

\* C18: parsing what the emitter wrote for a reply gives the reply back:
\* the same code, the same lines in the same order.
C18_ReplyRoundTrip ==
    (wr_pc = "done" /\ wr_call.fn = "reply") =>
        /\ wr_ret.kind = "ok"
        /\ wr_ret.code = wr_call.resp.code
        /\ wr_ret.lines = wr_call.resp.lines

\* the lines of a stream: each ends with its "\n", but for the last when the
\* stream ends without one
RECURSIVE WireLines(_)
WireLines(wire) ==
    IF wire = <<>> THEN <<>>
    ELSE <<read_line(wire)>> \o WireLines(SliceFrom(wire, Len(read_line(wire))))

IsDigit(c) == IndexIn(c, Digits) # 0
\* three digits, then a space or a hyphen
WellFormedLine(l) ==
    Len(l) >= 4 /\ IsDigit(l[1]) /\ IsDigit(l[2]) /\ IsDigit(l[3]) /\ l[4] \in {" ", "-"}
IsConnectionError(ret, text) == ret.kind = "Err" /\ ret.error = Err("ConnectionError", text)

\* C19: whatever the peer sends where a reply is due, reading the reply
\* never ends the task; a stream that ends before a terminal line gives
\* ConnectionError("EOF"); a continuation line followed by a line with
\* another code gives ConnectionError("Invalid response"); and a first line
\* that is shorter than four octets, or does not start with three digits,
\* or has another separator than space and hyphen gives a ConnectionError.
C19_MalformedReplyIsError ==
    (wr_pc = "done" /\ wr_call.fn = "read_reply") =>
        /\ wr_ret.kind # "panic"
        /\ ( \A i \in DOMAIN WireLines(wr_wire) :
                /\ WellFormedLine(WireLines(wr_wire)[i])
                /\ WireLines(wr_wire)[i][4] = "-"
                /\ SubSeq(WireLines(wr_wire)[i], 1, 3) = SubSeq(WireLines(wr_wire)[1], 1, 3) )
           => IsConnectionError(wr_ret, "EOF")
        /\ ( /\ Len(WireLines(wr_wire)) >= 2
             /\ WellFormedLine(WireLines(wr_wire)[1]) /\ WireLines(wr_wire)[1][4] = "-"
             /\ WellFormedLine(WireLines(wr_wire)[2])
             /\ SubSeq(WireLines(wr_wire)[2], 1, 3) # SubSeq(WireLines(wr_wire)[1], 1, 3) )
           => IsConnectionError(wr_ret, "Invalid response")
        /\ (wr_wire # <<>> /\ ~WellFormedLine(WireLines(wr_wire)[1]))
           => (wr_ret.kind = "Err" /\ wr_ret.error.kind = "ConnectionError")

\* the header lines of a message with a key
HeaderCount(msg, key) == Len(SelectSeq(msg, LAMBDA l : l.t = "hdr" /\ l.key = key))
HeaderLine(msg, key) == SelectSeq(msg, LAMBDA l : l.t = "hdr" /\ l.key = key)[1]

\* the counts a message must respect
CountsRespected(msg) ==
    /\ HeaderCount(msg, "Date") = 1
    /\ HeaderCount(msg, "From") = 1
    /\ Len(Flatten(HeaderLine(msg, "From").val)) >= 1
    /\ \A key \in {"Reply-To", "To", "Cc", "Bcc", "Subject", "Message-ID", "In-Reply-To",
                   "References"} : HeaderCount(msg, key) <= 1
    /\ HeaderCount(msg, "Message-ID") = 1 => Len(HeaderLine(msg, "Message-ID").val) = 1

\* C20: a message that parse_and_validate_parsed_mail accepts has exactly
\* one Date header, exactly one From header with at least one address, at
\* most one header each of Reply-To, To, Cc, Bcc, Subject, Message-ID,
\* In-Reply-To and References, and one id in its Message-ID header when it
\* has one; a message that violates one of these counts is rejected with an
\* error.
C20_AcceptedRespectsCounts ==
    (wr_pc = "done" /\ wr_call.fn = "validate") =>
        /\ wr_ret.ok => CountsRespected(wr_call.msg)
        /\ ~CountsRespected(wr_call.msg) => (~wr_ret.ok /\ wr_ret.err # "")

\* a message with one Date, one From and one Message-ID header that holds
\* two ids has been rejected for that
C20_Witness ==
    /\ wr_pc = "done" /\ wr_call.fn = "validate"
    /\ HeaderCount(wr_call.msg, "Date") = 1
    /\ HeaderCount(wr_call.msg, "From") = 1
    /\ HeaderCount(wr_call.msg, "Message-ID") = 1
    /\ HeaderCount(wr_call.msg, "Subject") = 1
    /\ Len(HeaderLine(wr_call.msg, "Message-ID").val) = 2
    /\ ~wr_ret.ok
    /\ wr_ret.err = "Invalid number of Message-IDs"

\* the Sender rule: one Sender header when From has more than one address,
\* none when From has exactly one
SenderRuleRespected(msg) ==
    /\ HeaderCount(msg, "From") = 1
    /\ IF Len(Flatten(HeaderLine(msg, "From").val)) > 1
       THEN HeaderCount(msg, "Sender") = 1
       ELSE HeaderCount(msg, "Sender") = 0

\* C21: a message that parse_and_validate_parsed_mail accepts has exactly
\* one Sender header when its From header has more than one address and no
\* Sender header when its From header has exactly one address; no accepted
\* message has two or more Sender headers.
C21_SenderRule ==
    (wr_pc = "done" /\ wr_call.fn = "validate" /\ wr_ret.ok) =>
        /\ SenderRuleRespected(wr_call.msg)
        /\ HeaderCount(wr_call.msg, "Sender") <= 1

====
